---------------------------- MODULE Spec2Model ----------------------------
(***************************************************************************)
(* A model of the core of the osint-pipeline repository:                   *)
(*   - dedup_index/deduplicator.py: canonicalize, compute_confidence,      *)
(*     make_cluster_id                                                     *)
(*   - dedup_index/indexer.py: Indexer.upsert over the sqlite table iocs   *)
(*   - run_enrich.py, collectors/enrich.py: the asyncio enrichment run     *)
(*     (main, main_async, enrich_worker, enrich_local, the HTTP lookups)   *)
(*                                                                         *)
(* Strings the code inspects character by character (indicator values)    *)
(* are sequences of one-character strings.  Python values of mixed type    *)
(* (enrichment values) are tagged records: [k |-> "null"],                 *)
(* [k |-> "str", s |-> ..], [k |-> "int", n |-> ..], [k |-> "map", m |-> f],*)
(* [k |-> "list", l |-> seq].                                              *)
(***************************************************************************)
EXTENDS Integers, Sequences, FiniteSets, TLC

VARIABLES
    store,      \* table iocs: a function doc_id -> document (id is PRIMARY KEY)
    now,        \* the clock datetime.utcnow() reads; one tick per call of upsert
    last,       \* the last call of upsert: its arguments, outcome and the row it found
    canonIn,    \* SpecCanon: the indicator handed to canonicalize
    canonOut,   \* SpecCanon: the results of the successive canonicalize calls
    storeBA,    \* SpecOrder: the table of the run that upserts B first, then A
    obs,        \* SpecOrder: the two observations <<A, B>>
    pc,         \* SpecConc: where each caller of upsert stands
    args,       \* SpecConc: each caller's (ioc, enrichment)
    existing,   \* SpecConc: the row each caller read (its local `existing`)
    env,        \* run_enrich: command line, API keys and what the providers answer
    disk,       \* run_enrich: the files STORE_IN, OUT_JSONL, CACHE_FILE, OUT_JSON
    mpc,        \* run_enrich: where main / main_async stands
    to_process, \* main_async: the sorted, truncated input
    cache,      \* main_async: the dict `cache` shared by all workers
    tasks,      \* main_async: the worker tasks, idx -> [pc, enrichment, result]
    sem,        \* main_async: the asyncio.Semaphore, [value, waiters]
    progress_queue, \* every message put on progress_queue, in queue order
    invoked,    \* history: the provider calls made, <<idx, provider>>
    run,        \* history: 1 in the first run, 2 after a restart
    prior,      \* history: what the stopped run left behind
    printed,    \* progress_printer: how many messages of progress_queue it has taken
    config,     \* utils/config.py: the attributes of Config and the files the enrichers look for
    cache_dir,  \* utils/cache.py: the files of ./.cache, path -> [expiry, value]
    clock,      \* utils: the clock time.time() / datetime.utcnow() reads
    call,       \* utils: the last call of Cache, an enricher or a scoring function
    written     \* history: the last Cache.set of each key, key -> [expiry, value]

indexVars == <<store, now, last, canonIn, canonOut, storeBA, obs, pc, args, existing>>

enrichVars == <<env, disk, mpc, to_process, cache, tasks, sem, progress_queue,
                invoked, run, prior, printed>>

utilVars == <<config, cache_dir, clock, call, written>>

vars == <<store, now, last, canonIn, canonOut, storeBA, obs, pc, args, existing,
          env, disk, mpc, to_process, cache, tasks, sem, progress_queue,
          invoked, run, prior, printed, config, cache_dir, clock, call, written>>

\* Cache, the enrichers and the scoring functions are not part of the
\* specifications of the indexer and of the enrichment run
UtilIdle ==
    /\ config = <<>>
    /\ written = <<>>
    /\ cache_dir = <<>>
    /\ clock = 0
    /\ call = [op |-> "none"]

\* the enrichment run is not part of the specifications of the indexer
EnrichIdle ==
    /\ env = <<>>
    /\ disk = <<>>
    /\ mpc = "idle"
    /\ to_process = <<>>
    /\ cache = <<>>
    /\ tasks = <<>>
    /\ sem = <<>>
    /\ progress_queue = <<>>
    /\ invoked = {}
    /\ run = 0
    /\ prior = <<>>
    /\ printed = 0

----------------------------------------------------------------------------
(* Bounds of the model *)

\* longest indicator value body drawn for canonicalize (after the optional scheme)
MaxLen == 4
\* calls of upsert in one behaviour of Spec
MaxUpserts == 3
\* calls of upsert in one behaviour of SpecMerge
MaxMerges == 3

----------------------------------------------------------------------------
(* Character strings *)

\* Python's None where a string is expected is kept apart from every string
None == <<"<None>">>

BodyChars == {"a", "A", "/", " ", ":"}

Http == <<"h", "t", "t", "p", ":", "/", "/">>
Https == <<"h", "t", "t", "p", "s", ":", "/", "/">>
HttpUpper == <<"H", "T", "T", "P", ":", "/", "/">>

\* str.lower on one character of the alphabet
LowerChar(c) ==
    CASE c = "A" -> "a"
      [] c = "H" -> "h"
      [] c = "T" -> "t"
      [] c = "P" -> "p"
      [] c = "S" -> "s"
      [] OTHER -> c

\* str.lower
Lower(s) == [i \in 1..Len(s) |-> LowerChar(s[i])]

\* str.startswith
StartsWith(s, pre) == Len(s) >= Len(pre) /\ SubSeq(s, 1, Len(pre)) = pre

RECURSIVE LStrip(_, _)
\* str.lstrip(chars)
LStrip(s, cs) == IF s # <<>> /\ Head(s) \in cs THEN LStrip(Tail(s), cs) ELSE s

RECURSIVE RStrip(_, _)
\* str.rstrip(chars)
RStrip(s, cs) ==
    IF s # <<>> /\ s[Len(s)] \in cs THEN RStrip(SubSeq(s, 1, Len(s) - 1), cs) ELSE s

\* str.strip(chars)
Strip(s, cs) == RStrip(LStrip(s, cs), cs)

\* the whitespace of the alphabet, what str.strip() without argument removes
Whitespace == {" "}

\* str.find: the first index of character c in s, 0 when there is none
Find(s, c) ==
    IF \E i \in 1..Len(s) : s[i] = c
    THEN CHOOSE i \in 1..Len(s) : s[i] = c /\ \A j \in 1..(i - 1) : s[j] # c
    ELSE 0

RECURSIVE Split(_, _)
\* str.split(c): the parts between the occurrences of c
Split(s, c) ==
    LET i == Find(s, c)
    IN  IF i = 0 THEN <<s>>
        ELSE <<SubSeq(s, 1, i - 1)>> \o Split(SubSeq(s, i + 1, Len(s)), c)

----------------------------------------------------------------------------
(* deduplicator.py: canonicalize *)

\* urllib.parse.urlparse(v).netloc for v = scheme "://" rest: up to the first "/"
\* ('?' and '#' are not in the alphabet)
UrlNetloc(v, scheme) ==
    LET rest == SubSeq(v, Len(scheme) + 1, Len(v))
        i == Find(rest, "/")
    IN  IF i = 0 THEN rest ELSE SubSeq(rest, 1, i - 1)

\* urllib.parse.urlparse(v).path: from that "/" on
UrlPath(v, scheme) ==
    LET rest == SubSeq(v, Len(scheme) + 1, Len(v))
        i == Find(rest, "/")
    IN  IF i = 0 THEN <<>> ELSE SubSeq(rest, i, Len(rest))

\* lines 29-41: the canonical value of a domain
CanonDomain(val) ==
    LET v0 == Strip(Lower(val), Whitespace)
        scheme == IF StartsWith(v0, Https) THEN Https
                  ELSE IF StartsWith(v0, Http) THEN Http ELSE <<>>
        v1 == IF scheme = <<>> THEN v0
              ELSE IF UrlNetloc(v0, scheme) # <<>> THEN UrlNetloc(v0, scheme)
              ELSE UrlPath(v0, scheme)
        v2 == Strip(v1, {"/", " "})
    IN  IF Find(v2, ":") # 0 THEN Split(v2, ":")[1] ELSE v2

HexDigits == {"a", "A"}

\* ipaddress._BaseV6._parse_hextet accepts 1..4 hex digits
IsHextet(p) == Len(p) \in 1..4 /\ \A i \in 1..Len(p) : p[i] \in HexDigits

\* ipaddress.IPv6Address._ip_int_from_string on a string shorter than 15
\* characters: exactly one "::", a leading or trailing ':' only as part of it,
\* every other part a hextet.  (The alphabet has no decimal digit and no '.',
\* so no value is an IPv4 literal.)
ValidIPv6(s) ==
    LET parts == Split(s, ":")
        n == Len(parts)
        skips == {i \in 2..(n - 1) : parts[i] = <<>>}
    IN  /\ s # <<>>
        /\ n >= 3
        /\ n <= 9
        /\ Cardinality(skips) = 1
        /\ LET sk == CHOOSE i \in skips : TRUE
               hi == IF parts[1] = <<>> THEN sk - 2 ELSE sk - 1
               lo == IF parts[n] = <<>> THEN n - sk - 1 ELSE n - sk
           IN  /\ parts[1] = <<>> => hi = 0
               /\ parts[n] = <<>> => lo = 0
               /\ 8 - (hi + lo) >= 1
               /\ \A i \in 1..n : parts[i] # <<>> => IsHextet(parts[i])

\* lines 48-56: str(ipaddress.ip_address(val)), or the value as it is when it
\* does not parse.  The alphabet has no '0', so every written hextet is non-zero
\* and the zero run "::" stands for is the one str() compresses again: the
\* address is re-serialized as its lower-case form.
CanonIp(val) == IF ValidIPv6(val) THEN Lower(val) ELSE val

\* lines 17-71.  An indicator is a function from some of the keys "type",
\* "value" to its type (a string) and its value (a character string, or None).
\* ioc.get("type"), ioc.get("value"): None for an absent key.
NoType == "<None>"

TypeOf(ioc) == IF "type" \in DOMAIN ioc THEN ioc["type"] ELSE NoType

ValueOf(ioc) == IF "value" \in DOMAIN ioc THEN ioc["value"] ELSE None

canonicalize(ioc) ==
    LET typ == TypeOf(ioc)
        val == ValueOf(ioc)
    IN  IF val = None \/ val = <<>> THEN ioc
        ELSE IF typ = "domain" THEN [ioc EXCEPT !["value"] = CanonDomain(val)]
        ELSE IF typ = "ip" THEN [ioc EXCEPT !["value"] = CanonIp(val)]
        ELSE IF typ = "hash" THEN [ioc EXCEPT !["value"] = Lower(val)]
        ELSE [ioc EXCEPT !["value"] = Strip(val, Whitespace)]

----------------------------------------------------------------------------
(* Python values held in an enrichment bundle, tagged by their type *)

Null == [k |-> "null"]

StrV(x) == [k |-> "str", s |-> x]

IntV(x) == [k |-> "int", n |-> x]

MapV(f) == [k |-> "map", m |-> f]

ListV(q) == [k |-> "list", l |-> q]

\* bool(v): None, "", 0 and {} are falsy
Truthy(v) ==
    CASE v.k = "null" -> FALSE
      [] v.k = "str" -> v.s # ""
      [] v.k = "int" -> v.n # 0
      [] v.k = "map" -> DOMAIN v.m # {}
      [] v.k = "list" -> v.l # <<>>
      [] v.k = "date" -> TRUE

\* dict.get(key): None for an absent key
EGet(d, key) == IF key \in DOMAIN d THEN d[key] ELSE Null

\* str(v) of a value that is no string is its repr
ReprV(v) == IF v.k = "str" THEN v ELSE [k |-> "repr", of |-> v]

Max(x, y) == IF x >= y THEN x ELSE y

Min(x, y) == IF x <= y THEN x ELSE y

----------------------------------------------------------------------------
(* deduplicator.py: compute_confidence *)

\* lines 89-99: the artifacts looked for, in the order the code reads them
ConfidenceChecks ==
    << [p |-> "geoip", fs |-> {"country"}, pts |-> 25],
       [p |-> "whois", fs |-> {"registrar"}, pts |-> 20],
       [p |-> "dns", fs |-> {"a", "aaaa", "txt", "mx"}, pts |-> 20],
       [p |-> "reverse", fs |-> {"ptr"}, pts |-> 5] >>

\* lines 101-106: +20 when int(sources_count) > 1; a value int() rejects is
\* passed over (inner try/except); an absent key counts as 1
SourcesBonus(enr) ==
    LET sc == IF "sources_count" \in DOMAIN enr THEN enr["sources_count"] ELSE IntV(1)
    IN  IF sc.k = "int" /\ sc.n > 1 THEN 20 ELSE 0

RECURSIVE ConfidenceFrom(_, _, _)
\* lines 88-108: the body of the try block from check i on.  A truthy provider
\* value that is no dict has no .get: the exception ends the block with the
\* score reached so far.
ConfidenceFrom(enr, i, score) ==
    IF i > Len(ConfidenceChecks) THEN score + SourcesBonus(enr)
    ELSE LET c == ConfidenceChecks[i]
             v == EGet(enr, c.p)
         IN  IF ~Truthy(v) THEN ConfidenceFrom(enr, i + 1, score)
             ELSE IF v.k # "map" THEN score
             ELSE IF \E f \in c.fs : Truthy(EGet(v.m, f))
                  THEN ConfidenceFrom(enr, i + 1, score + c.pts)
                  ELSE ConfidenceFrom(enr, i + 1, score)

\* lines 73-109
compute_confidence(enr) ==
    IF DOMAIN enr = {} THEN 0 ELSE Min(100, ConfidenceFrom(enr, 1, 0))

----------------------------------------------------------------------------
(* deduplicator.py: make_cluster_id *)

RECURSIVE TruthyFields(_, _)
\* the str() of the truthy fields of dict m, in the order fs lists them
TruthyFields(m, fs) ==
    IF fs = <<>> THEN <<>>
    ELSE (IF Truthy(EGet(m, Head(fs))) THEN <<ReprV(m[Head(fs)])>> ELSE <<>>)
         \o TruthyFields(m, Tail(fs))

\* lines 130-136 for one key (the bundles of the model hold no list)
RelatedParts(enr, key) ==
    IF Truthy(EGet(enr, key)) THEN <<ReprV(enr[key])>> ELSE <<>>

\* lines 117-146.  The id is sha1 of the joined parts; it is kept as the list of
\* parts it is computed from.  An exception inside the try block leaves the
\* parts appended so far, and an empty list falls back to type:value.
make_cluster_id(doc) ==
    LET enr == doc.enrichment
        geo == EGet(enr, "geoip")
        who == EGet(enr, "whois")
        key == [k |-> "key", t |-> doc.type, v |-> doc.value]
        geoParts == IF Truthy(geo) THEN TruthyFields(geo.m, <<"asn", "org">>) ELSE <<>>
        whoParts == IF Truthy(who) THEN TruthyFields(who.m, <<"registrar">>) ELSE <<>>
        parts == IF Truthy(geo) /\ geo.k # "map" THEN <<>>
                 ELSE IF Truthy(who) /\ who.k # "map" THEN geoParts
                 ELSE geoParts \o whoParts
                      \o RelatedParts(enr, "related_domains")
                      \o RelatedParts(enr, "related_hashes")
                      \o <<key>>
    IN  IF parts = <<>> THEN <<key>> ELSE parts

----------------------------------------------------------------------------
(* indexer.py: Indexer *)

\* the characters an f-string writes for None
NoneText == <<"N", "o", "n", "e">>

\* line 78: doc_id = f"{can['type']}::{can['value']}", kept as the pair
\* (type, value text)
DocId(can) == <<can["type"], IF can["value"] = None THEN NoneText ELSE can["value"]>>

NoDoc == [id |-> <<"", <<>>>>, missing |-> TRUE]

\* lines 46-57: the row with this id, or None.  The document column holds what
\* json.dumps wrote; the values of the model are JSON values with string keys,
\* which json.loads gives back as they were.
ReadSqlDoc(st, doc_id) == IF doc_id \in DOMAIN st THEN st[doc_id] ELSE NoDoc

\* lines 59-66: INSERT OR REPLACE on the primary key id
WriteSqlDoc(st, doc_id, doc) == (doc_id :> doc) @@ st

\* int(x): the number of an int; anything else of the model raises
IsInt(v) == v.k = "int"

\* lines 89-92 for one key of the new bundle whose value v is not None
MergedValue(old_enr, key, v) ==
    IF v.k = "map" /\ EGet(old_enr, key).k = "map"
    THEN MapV(v.m @@ old_enr[key].m)
    ELSE v

\* mutant of MergeEnrichment: the new bundle overwrites the stored enrichment
MergeEnrichment_Overwrite(old_enr, enr) == enr

\* lines 83-95: the loop over the new bundle; a None value is skipped
MergeEnrichment(old_enr, enr) ==
    LET touched == {key \in DOMAIN enr : enr[key].k # "null"}
    IN  [key \in DOMAIN old_enr \cup touched |->
            IF key \in touched THEN MergedValue(old_enr, key, enr[key])
            ELSE old_enr[key]]

\* lines 96, 113: int(enrichment.get("sources_count", 1)), 1 for an empty bundle
SourcesCountOf(enr) ==
    IF "sources_count" \in DOMAIN enr THEN enr["sources_count"].n ELSE 1

\* mutant of MergedSourcesCount: the new bundle's count replaces the stored one
MergedSourcesCount_LastWins(old, enr) == SourcesCountOf(enr)

\* mutant of MergedSourcesCount: the counts are added up
MergedSourcesCount_Sum(old, enr) == old.sources_count + SourcesCountOf(enr)

\* line 96
MergedSourcesCount(old, enr) == Max(old.sources_count, SourcesCountOf(enr))

\* mutant of MergedConfidence: the fresh score replaces the stored confidence
MergedConfidence_NoMax(old, merged_enr) == compute_confidence(merged_enr)

\* line 97
MergedConfidence(old, merged_enr) == Max(old.confidence, compute_confidence(merged_enr))

\* lines 82-99: the merged document; every key the code does not assign keeps
\* the value of the row read
MergedDoc(old, enr) ==
    LET merged_enr == MergeEnrichment(old.enrichment, enr)
        m1 == [old EXCEPT !.enrichment = merged_enr,
                          !.sources_count = MergedSourcesCount(old, enr),
                          !.confidence = MergedConfidence(old, merged_enr)]
    IN  [m1 EXCEPT !.cluster_id = make_cluster_id(m1)]

\* lines 106-116: the new document; t is what datetime.utcnow() returns
NewDoc(can, enr, t) ==
    LET d == [id |-> DocId(can),
              type |-> can["type"],
              value |-> can["value"],
              first_seen |-> t,
              last_seen |-> t,
              enrichment |-> enr,
              sources_count |-> SourcesCountOf(enr),
              confidence |-> compute_confidence(enr),
              cluster_id |-> <<>>]
    IN  [d EXCEPT !.cluster_id = make_cluster_id(d)]

\* int() at lines 96 / 113 raises for a sources_count that is no number
SourcesCountRaises(enr) ==
    "sources_count" \in DOMAIN enr /\ ~IsInt(enr["sources_count"])

\* mutant of UpsertDoc: a merge stamps first_seen again
UpsertDoc_RestampsFirstSeen(found, can, enr, t) ==
    IF SourcesCountRaises(enr) THEN [op |-> "raise", doc |-> NoDoc]
    ELSE IF found # NoDoc
         THEN [op |-> "merged", doc |-> [MergedDoc(found, enr) EXCEPT !.first_seen = t]]
    ELSE [op |-> "new", doc |-> NewDoc(can, enr, t)]

\* lines 80-120 once the row is read: what is written and returned.
\* op: "raise" (nothing written), "merged" or "new".
UpsertDoc(found, can, enr, t) ==
    IF SourcesCountRaises(enr) THEN [op |-> "raise", doc |-> NoDoc]
    ELSE IF found # NoDoc THEN [op |-> "merged", doc |-> MergedDoc(found, enr)]
    ELSE [op |-> "new", doc |-> NewDoc(can, enr, t)]

\* line 73: a record without type or value key is refused
ValidIoc(ioc) == "type" \in DOMAIN ioc /\ "value" \in DOMAIN ioc

\* lines 68-120: upsert on table st at time t: the outcome, the table after it
\* and the document returned
upsert(st, ioc, enr, t) ==
    IF ~ValidIoc(ioc)
    THEN [op |-> "invalid", id |-> NoDoc.id, found |-> NoDoc, store |-> st, doc |-> NoDoc]
    ELSE LET can == canonicalize(ioc)
             doc_id == DocId(can)
             found == ReadSqlDoc(st, doc_id)
             r == UpsertDoc(found, can, enr, t)
         IN  [op |-> r.op, id |-> doc_id, found |-> found,
              store |-> IF r.op = "raise" THEN st ELSE WriteSqlDoc(st, doc_id, r.doc),
              doc |-> r.doc]

----------------------------------------------------------------------------
(* Spec: calls of Indexer.upsert, one after the other, on one table *)

\* before the first call
NoCall == [op |-> "none"]

\* provider results: a dict over some of the fields, each None or one of vals
MapsOver(fields, vals) == UNION {[S -> vals \cup {Null}] : S \in SUBSET fields}

\* what a bundle may hold for one provider: None, a bare string, or a dict
ProviderValues(fields, vals) ==
    {Null, StrV("raw")} \cup {MapV(f) : f \in MapsOver(fields, vals)}

\* the bundles with a value for some of the keys, drawn from range[key]
BundlesOver(range) ==
    UNION {{b \in [S -> UNION {range[key] : key \in S}] : \A key \in S : b[key] \in range[key]}
           : S \in SUBSET DOMAIN range}

\* Spec: a few indicators of several types, two of them with the same
\* canonical key, one with a port after a slash, one without value key
Indicators ==
    {[type |-> "domain", value |-> v] : v \in {<<"a">>, <<"A">>, <<"a", "/", ":", "a">>}}
    \cup {[type |-> "ip", value |-> <<"A", ":", ":">>],
          [type |-> "hash", value |-> <<"A">>],
          [type |-> "domain"]}

\* Spec: an empty bundle, one provider each, and a sources_count int() rejects
Bundles ==
    {<<>>,
     [dns |-> MapV([a |-> StrV("v1")])],
     [whois |-> MapV([registrar |-> StrV("v1")]), sources_count |-> IntV(2)],
     [sources_count |-> StrV("raw")]}

Init ==
    /\ store = <<>>
    /\ now = 0
    /\ last = NoCall
    /\ canonIn = <<>>
    /\ canonOut = <<>>
    /\ storeBA = <<>>
    /\ obs = <<>>
    /\ pc = <<>>
    /\ args = <<>>
    /\ existing = <<>>
    /\ EnrichIdle
    /\ UtilIdle

\* one call upsert(ioc, enr), from canonicalization to the write
Upsert(ioc, enr) ==
    /\ \E r \in {upsert(store, ioc, enr, now + 1)} :
           /\ store' = r.store
           /\ last' = [op |-> r.op, ioc |-> ioc, enr |-> enr, id |-> r.id,
                       found |-> r.found, doc |-> r.doc, t |-> now + 1]
    /\ now' = now + 1
    /\ UNCHANGED <<canonIn, canonOut, storeBA, obs, pc, args, existing, enrichVars, utilVars>>

Next == now < MaxUpserts /\ \E ioc \in Indicators, enr \in Bundles : Upsert(ioc, enr)

Spec == Init /\ [][Next]_vars

----------------------------------------------------------------------------
(* SpecMerge: every call goes to one canonical key; the bundles range over
   the shapes the merge loop tells apart (a provider value that is None, a
   bare string, an empty dict, a dict with a None or a non-None field) and a
   sources_count that is a number or one int() rejects *)

MergeIndicators == {[type |-> "domain", value |-> <<"A">>]}

MergeBundles ==
    BundlesOver([dns |-> ProviderValues({"a"}, {StrV("v1"), StrV("v2")}),
                 whois |-> {MapV([registrar |-> StrV("v1")]), MapV([registrar |-> Null])},
                 sources_count |-> {IntV(2), StrV("raw")}])

NextMerge ==
    now < MaxMerges /\ \E ioc \in MergeIndicators, enr \in MergeBundles : Upsert(ioc, enr)

SpecMerge == Init /\ [][NextMerge]_vars

----------------------------------------------------------------------------
(* Claims about upsert, checked under Spec and SpecMerge *)

\* the last call wrote a document
Wrote(l) == l.op \in {"new", "merged"}

\* the canonical key of a stored document's own type and value
CanonicalKey(doc) == DocId(canonicalize([type |-> doc.type, value |-> doc.value]))

\* C1: the table holds at most one document per canonical key, every upsert
\* lands in the document of its indicator's canonical key, and every stored
\* document's id is the canonical key of its own type and value.
C1_OneDocPerCanonicalKey ==
    /\ \A d1, d2 \in DOMAIN store :
           CanonicalKey(store[d1]) = CanonicalKey(store[d2]) => d1 = d2
    /\ \A d \in DOMAIN store : store[d].id = d /\ d = CanonicalKey(store[d])
    /\ Wrote(last) => last.id = DocId(canonicalize(last.ioc)) /\ store[last.id] = last.doc

\* C2: from one upsert to the next, no stored document's confidence or
\* sources_count decreases (and no document disappears).
C2_MergeMonotone ==
    [][\A d \in DOMAIN store :
           /\ d \in DOMAIN store'
           /\ store'[d].confidence >= store[d].confidence
           /\ store'[d].sources_count >= store[d].sources_count]_vars

\* C2 witness: a merge whose merged enrichment alone scores below the stored
\* confidence, with a bundle whose sources_count is below the stored one
C2_Witness ==
    /\ last.op = "merged"
    /\ compute_confidence(store[last.id].enrichment) < store[last.id].confidence
    /\ SourcesCountOf(last.enr) < last.found.sources_count

\* C4: a later upsert never changes a document's id or first_seen; a document
\* is created with first_seen the time of the upsert that creates it and with
\* id the canonical key that upsert computed.
C4_IdFirstSeenFrozen ==
    [][/\ \A d \in DOMAIN store :
              /\ d \in DOMAIN store'
              /\ store'[d].id = store[d].id
              /\ store'[d].first_seen = store[d].first_seen
       /\ \A d \in DOMAIN store' \ DOMAIN store :
              /\ d = DocId(canonicalize(last'.ioc))
              /\ store'[d].id = d
              /\ store'[d].first_seen = last'.t]_vars

\* C4 witness: a document merged into after its creation, next to another one
C4_Witness ==
    /\ last.op = "merged"
    /\ last.enr # <<>>
    /\ store[last.id].first_seen < last.t
    /\ store[last.id].id = last.id
    /\ Cardinality(DOMAIN store) >= 2

\* C5: after an upsert that wrote a document, new or merged, the document's
\* last_seen is the time of that upsert.
C5_LastSeenIsLastUpsert == Wrote(last) => store[last.id].last_seen = last.t

\* C6: a merge keeps every provider key of the existing enrichment that the
\* new bundle does not carry, unchanged; a document holding only dns, merged
\* with a bundle holding only whois, holds both afterwards.
C6_AbsentKeysKept ==
    last.op = "merged" =>
        LET old == last.found.enrichment
            new == store[last.id].enrichment
        IN  /\ \A key \in DOMAIN old \ DOMAIN last.enr :
                   key \in DOMAIN new /\ new[key] = old[key]
            /\ (DOMAIN old = {"dns"} /\ DOMAIN last.enr = {"whois"}) =>
                   /\ DOMAIN new = {"dns", "whois"}
                   /\ new["dns"] = old["dns"]
                   /\ new["whois"] = last.enr["whois"]

\* C6 witness: dns data only, then whois data only, both populated afterwards
C6_Witness ==
    /\ last.op = "merged"
    /\ DOMAIN last.found.enrichment = {"dns"}
    /\ DOMAIN last.enr = {"whois"}
    /\ Truthy(store[last.id].enrichment["dns"])
    /\ Truthy(store[last.id].enrichment["whois"])

\* C7: when the old and the new value of a provider key are both maps, a null
\* field of the new map never replaces a non-null field of the old map.
C7_NullFieldNeverReplaces ==
    last.op = "merged" =>
        \A key \in DOMAIN last.enr \cap DOMAIN last.found.enrichment :
            LET old == last.found.enrichment[key]
                new == last.enr[key]
                res == store[last.id].enrichment[key]
            IN  (old.k = "map" /\ new.k = "map") =>
                    /\ res.k = "map"
                    /\ \A f \in DOMAIN old.m :
                           (old.m[f] # Null /\ f \in DOMAIN new.m /\ new.m[f] = Null)
                               => (f \in DOMAIN res.m /\ res.m[f] = old.m[f])

\* a document with its last_seen blanked
ExceptLastSeen(doc) == [doc EXCEPT !.last_seen = 0]

\* C9: upserting the (indicator, enrichment) pair of the upsert before once
\* more leaves the document as it was, last_seen aside, and touches no other.
C9_UpsertIdempotent ==
    [][(Wrote(last) /\ last'.ioc = last.ioc /\ last'.enr = last.enr) =>
           /\ last'.op = "merged"
           /\ DOMAIN store' = DOMAIN store
           /\ \A d \in DOMAIN store :
                  ExceptLastSeen(store'[d]) = ExceptLastSeen(store[d])]_vars

\* C9 witness: the second of two identical upserts, of a bundle with a map,
\* a null field and a sources_count above 1
C9_Witness ==
    /\ last.op = "merged"
    /\ last.t = 2
    /\ last.found.enrichment = last.enr
    /\ {"dns", "whois", "sources_count"} \subseteq DOMAIN last.enr
    /\ last.enr["dns"].k = "map"
    /\ last.enr["whois"] = MapV([registrar |-> Null])
    /\ last.enr["sources_count"] = IntV(2)

----------------------------------------------------------------------------
(* SpecOrder: two observations of one key, upserted on an empty table in the
   order A, B (table store) and in the order B, A (table storeBA) *)

OrderIoc == [type |-> "domain", value |-> <<"A">>]

OrderBundles ==
    BundlesOver([dns |-> ProviderValues({"a"}, {StrV("v1"), StrV("v2")}),
                 whois |-> ProviderValues({"registrar"}, {StrV("v1")}),
                 sources_count |-> {IntV(1), IntV(2)}])

InitOrder ==
    /\ obs \in OrderBundles \X OrderBundles
    /\ store = <<>>
    /\ storeBA = <<>>
    /\ now = 0
    /\ last = NoCall
    /\ canonIn = <<>>
    /\ canonOut = <<>>
    /\ pc = <<>>
    /\ args = <<>>
    /\ existing = <<>>
    /\ EnrichIdle
    /\ UtilIdle

\* each run makes its next call of upsert: the first run A then B, the second
\* run B then A
OrderStep ==
    /\ now < 2
    /\ store' = upsert(store, OrderIoc, obs[now + 1], now + 1).store
    /\ storeBA' = upsert(storeBA, OrderIoc, obs[2 - now], now + 1).store
    /\ now' = now + 1
    /\ UNCHANGED <<last, obs, canonIn, canonOut, pc, args, existing, enrichVars, utilVars>>

NextOrder == OrderStep

SpecOrder == InitOrder /\ [][NextOrder]_vars

OrderKey == DocId(canonicalize(OrderIoc))

\* the same final document, timestamps aside
SameFinal(d1, d2) ==
    /\ d1.id = d2.id
    /\ d1.enrichment = d2.enrichment
    /\ d1.sources_count = d2.sources_count
    /\ d1.confidence = d2.confidence
    /\ d1.cluster_id = d2.cluster_id

\* C8 as stated: for any two observations A and B of one key, A then B and
\* B then A on an empty table end in the same document, timestamps aside.
C8_AnyOrderConverges == now = 2 => SameFinal(store[OrderKey], storeBA[OrderKey])

\* every provider value of the bundle is a map (sources_count is a number)
AllMaps(b) == \A key \in DOMAIN b \ {"sources_count"} : b[key].k = "map"

\* the two bundles give no field of a provider, and no sources_count,
\* different values
Agree(a, b) ==
    \A key \in DOMAIN a \cap DOMAIN b :
        IF a[key].k = "map" /\ b[key].k = "map"
        THEN \A f \in DOMAIN a[key].m \cap DOMAIN b[key].m : a[key].m[f] = b[key].m[f]
        ELSE a[key] = b[key]

\* C8 amended: when every provider value of A and of B is a map and A and B
\* give no common field (nor sources_count) different values, A then B and
\* B then A on an empty table end in the same document, timestamps aside.
C8_AgreeingOrderConverges ==
    (now = 2 /\ AllMaps(obs[1]) /\ AllMaps(obs[2]) /\ Agree(obs[1], obs[2]))
        => SameFinal(store[OrderKey], storeBA[OrderKey])

\* C8 witness: two different agreeing observations that overlap in a provider,
\* one of them with a sources_count above 1, both orders done
C8_Witness ==
    /\ now = 2
    /\ AllMaps(obs[1]) /\ AllMaps(obs[2]) /\ Agree(obs[1], obs[2])
    /\ obs[1] # obs[2]
    /\ "dns" \in DOMAIN obs[1] \cap DOMAIN obs[2]
    /\ "whois" \in DOMAIN obs[2] \ DOMAIN obs[1]
    /\ "sources_count" \in DOMAIN obs[1] \ DOMAIN obs[2]
    /\ obs[1]["sources_count"] = IntV(2)
    /\ store[OrderKey].confidence = 60

----------------------------------------------------------------------------
(* SpecConc: two callers of upsert on one table.  upsert holds no lock and no
   transaction: _read_sql_doc and _write_sql_doc each open a connection of
   their own, so a step of one caller may fall between the read and the write
   of the other. *)

Procs == {1, 2}

\* both callers upsert the same canonical key
ConcIndicators == {[type |-> "domain", value |-> v] : v \in {<<"a">>, <<"A">>}}

ConcBundles ==
    {[dns |-> MapV([a |-> StrV("v1")])],
     [whois |-> MapV([registrar |-> StrV("v1")])],
     [dns |-> MapV([a |-> StrV("v2")]), sources_count |-> IntV(2)]}

InitConc ==
    /\ args \in [Procs -> [ioc : ConcIndicators, enr : ConcBundles]]
    /\ pc = [p \in Procs |-> "read"]
    /\ existing = [p \in Procs |-> NoDoc]
    /\ EnrichIdle
    /\ UtilIdle
    /\ store = <<>>
    /\ now = 0
    /\ last = NoCall
    /\ canonIn = <<>>
    /\ canonOut = <<>>
    /\ storeBA = <<>>
    /\ obs = <<>>

\* lines 73-79: the caller checks and canonicalizes its indicator and reads
\* the row of its doc_id
ConcRead(p) ==
    /\ pc[p] = "read"
    /\ IF ValidIoc(args[p].ioc)
       THEN /\ existing' = [existing EXCEPT
                               ![p] = ReadSqlDoc(store, DocId(canonicalize(args[p].ioc)))]
            /\ pc' = [pc EXCEPT ![p] = "write"]
       ELSE /\ pc' = [pc EXCEPT ![p] = "done"]
            /\ UNCHANGED existing
    /\ UNCHANGED <<store, now, last, args, canonIn, canonOut, storeBA, obs, enrichVars, utilVars>>

\* lines 80-120: the caller merges into the row it read, or builds a new
\* document when it read none, and writes it
ConcWrite(p) ==
    /\ pc[p] = "write"
    /\ \E r \in {UpsertDoc(existing[p], canonicalize(args[p].ioc), args[p].enr, now + 1)} :
           store' = IF r.op = "raise" THEN store
                    ELSE WriteSqlDoc(store, DocId(canonicalize(args[p].ioc)), r.doc)
    /\ now' = now + 1
    /\ pc' = [pc EXCEPT ![p] = "done"]
    /\ UNCHANGED <<existing, last, args, canonIn, canonOut, storeBA, obs, enrichVars, utilVars>>

NextConc == \E p \in Procs : ConcRead(p) \/ ConcWrite(p)

SpecConc == InitConc /\ [][NextConc]_vars

\* the table left by the two callers' upserts one after the other, p first
SerialStore(p, q) ==
    upsert(upsert(<<>>, args[p].ioc, args[p].enr, 1).store, args[q].ioc, args[q].enr, 2).store

\* a table with the timestamps of its documents blanked
NoTimes(st) == [d \in DOMAIN st |-> [st[d] EXCEPT !.first_seen = 0, !.last_seen = 0]]

\* C3: two concurrent upserts of one key never interleave their
\* read-merge-write: the final table is the one some serial order of the two
\* upserts leaves.
C3_SerialOutcome ==
    (\A p \in Procs : pc[p] = "done") =>
        \E p, q \in Procs :
            p # q /\ NoTimes(store) = NoTimes(SerialStore(p, q))

----------------------------------------------------------------------------
(* SpecCanon: canonicalize applied twice to a bounded set of indicators *)

\* the strings over BodyChars of length at most n
StringsUpTo(n) == UNION {[1..k -> BodyChars] : k \in 0..n}

\* indicator values: an optional scheme in front of a short body
CanonValues == {pre \o body : pre \in {<<>>, Http, Https, HttpUpper}, body \in StringsUpTo(MaxLen)}

\* the types canonicalize tells apart, and one it does not know
Types == {"domain", "ip", "hash", "url"}

CanonInputs ==
    {[type |-> t, value |-> v] : t \in Types, v \in CanonValues \cup {None}}
    \cup {[type |-> t] : t \in Types}

InitCanon ==
    /\ canonIn \in CanonInputs
    /\ canonOut = <<>>
    /\ store = <<>>
    /\ now = 0
    /\ last = NoCall
    /\ storeBA = <<>>
    /\ obs = <<>>
    /\ pc = <<>>
    /\ args = <<>>
    /\ existing = <<>>
    /\ EnrichIdle
    /\ UtilIdle

\* one more call of canonicalize, on the result of the call before
Canonicalize ==
    /\ Len(canonOut) < 2
    /\ canonOut' = Append(canonOut,
                          canonicalize(IF canonOut = <<>> THEN canonIn
                                       ELSE canonOut[Len(canonOut)]))
    /\ UNCHANGED <<canonIn, store, now, last, storeBA, obs, pc, args, existing, enrichVars, utilVars>>

NextCanon == Canonicalize

SpecCanon == InitCanon /\ [][NextCanon]_vars

\* C10: canonicalize is idempotent for every type and every value:
\* canonicalize(canonicalize(x)) = canonicalize(x).
C10_CanonIdempotent == Len(canonOut) = 2 => canonOut[2] = canonOut[1]

----------------------------------------------------------------------------
(* run_enrich.py and collectors/enrich.py: the enrichment run.              *)
(*                                                                          *)
(* asyncio runs one callback at a time, so a task is atomic between two     *)
(* suspensions.  The suspensions of a worker are the wait for the semaphore,*)
(* the four run_in_executor calls of enrich_local and the session.get of    *)
(* the HTTP lookups; queue.put on the unbounded progress_queue and a lookup *)
(* without API key return without suspending.  An indicator's key           *)
(* f"{type}::{value}" is the pair <<type, value>>.                          *)

\* size of a flushed chunk: BATCH is 100 in main_async, kept small here so
\* that a run of a few indicators has more than one chunk
BATCH == 2
\* largest --concurrency drawn
MaxConcurrency == 2

EmptyMap == MapV(<<>>)

EmptyList == ListV(<<>>)

\* a or b
OrElse(a, b) == IF Truthy(a) THEN a ELSE b

\* d.get(key, default) on a dict value
MGet(d, key, default) == IF key \in DOMAIN d.m THEN d.m[key] ELSE default

KeyOf(ioc) == <<ioc.type, ioc.value>>

\* the task has not returned
NoResult == [pending |-> TRUE]

\* msg.get("idx") of a message enrich_local put: it has no idx and no total
NoIdx == 0

\* the messages enrich_local puts
LocalMsg(ioc, step) == [id |-> KeyOf(ioc), step |-> step, status |-> "done"]

\* the messages enrich_worker puts
WorkerMsg(ioc, idx, step) ==
    [idx |-> idx, total |-> Len(to_process), id |-> KeyOf(ioc), step |-> step,
     status |-> "done"]

MsgIdx(m) == IF "idx" \in DOMAIN m THEN m.idx ELSE NoIdx

----------------------------------------------------------------------------
(* What the providers answer *)

\* _run_dns: a dict of four lists, all empty when every query failed
DnsEmpty == MapV([a |-> EmptyList, aaaa |-> EmptyList, mx |-> EmptyList, txt |-> EmptyList])

DnsFound == MapV([a |-> ListV(<<StrV("192.0.2.1")>>), aaaa |-> EmptyList,
                  mx |-> EmptyList, txt |-> EmptyList])

\* _run_whois: five fields, or {} on any exception
WhoisFound == MapV([registrar |-> StrV("registrar"), creation_date |-> StrV("2020"),
                    expiration_date |-> StrV("2030"), name_servers |-> Null,
                    raw |-> StrV("raw")])

\* _run_geoip: four fields, or {} on any exception
GeoFound == MapV([city |-> Null, country |-> StrV("NL"), country_iso |-> StrV("NL"),
                  location |-> MapV([lat |-> IntV(52), lon |-> IntV(5)])])

\* resp.json() raised: the body is no JSON
Undecodable == [k |-> "undecodable"]

\* what session.get did: raised (network error, timeout), or answered
Raised(why) == [exc |-> why, status |-> 0, json |-> Undecodable]

Answered(status, body) == [exc |-> "", status |-> status, json |-> body]

OtxFound == MapV([pulse_info |-> MapV([count |-> IntV(3)])])

OtxPassive == MapV([pulse_info |-> MapV([count |-> IntV(0)]),
                    passive_dns |-> ListV(<<StrV("192.0.2.1")>>)])

\* bodies of another shape than the code expects
OtxNullPulse == MapV([pulse_info |-> Null])

OtxList == ListV(<<StrV("error")>>)

AbuseFound == MapV([data |-> MapV([abuseConfidenceScore |-> IntV(80)])])

AbuseTextScore == MapV([data |-> MapV([abuseConfidenceScore |-> StrV("high")])])

AbuseListData == MapV([data |-> ListV(<<StrV("error")>>)])

HttpFailures == {Raised("network"), Raised("timeout"), Answered(500, EmptyMap),
                 Answered(200, Undecodable)}

\* every answer of every provider
AnyWorld ==
    [dns |-> {DnsFound, DnsEmpty},
     whois |-> {WhoisFound, EmptyMap},
     rdns |-> {StrV("host.example"), Null},
     geoip |-> {GeoFound, EmptyMap},
     otx |-> HttpFailures \cup {Answered(200, b) : b \in {EmptyMap, OtxFound, OtxPassive, OtxNullPulse, OtxList}},
     abuseipdb |-> HttpFailures \cup {Answered(200, b) : b \in {EmptyMap, AbuseFound, AbuseTextScore, AbuseListData}}]

\* http_otx_lookup after the check of the API key: {} unless 200 with a JSON body
http_otx_lookup(resp) ==
    IF resp.exc # "" THEN EmptyMap
    ELSE IF resp.status = 200
         THEN IF resp.json = Undecodable THEN EmptyMap ELSE resp.json
         ELSE EmptyMap

\* http_abuseipdb_lookup after the check of the API key
http_abuseipdb_lookup(resp) ==
    IF resp.exc # "" THEN EmptyMap
    ELSE IF resp.status = 200
         THEN IF resp.json = Undecodable THEN EmptyMap ELSE resp.json
         ELSE EmptyMap


----------------------------------------------------------------------------
(* enrich_worker and enrich_local, one piece per stretch between two        *)
(* suspensions.  A piece yields a frame: where the task stands next (pc),   *)
(* its enrichment dict and the messages it put on the way.                  *)

Frame(p, enr, ev) == [pc |-> p, enrichment |-> enr, ev |-> ev]

\* the dict enrich_worker returns and stores in the cache
Result(ioc, enr) ==
    [type |-> ioc.type, value |-> ioc.value, source |-> EGet(ioc, "source"),
     first_seen |-> EGet(ioc, "first_seen"), last_seen |-> EGet(ioc, "last_seen"),
     enrichment |-> enr]

\* enrich_worker from `add sources_count` to the return
Finish(ioc, idx, enr, ev) ==
    LET sc == OrElse(EGet(ioc, "sources_count"),
                     OrElse(EGet(ioc, "sources"),
                            IF "sources_count" \in DOMAIN enr THEN enr["sources_count"]
                            ELSE IntV(1)))
    IN  Frame("done", [sources_count |-> sc] @@ enr,
              Append(ev, WorkerMsg(ioc, idx, "COMPLETE")))

\* otx.get("pulse_info", {}).get(..) on a body that is no dict, or whose
\* pulse_info is none: AttributeError
OtxRaises(otx) ==
    Truthy(otx) /\ (otx.k # "map" \/ MGet(otx, "pulse_info", EmptyMap).k # "map")

\* the domain branch of `optional HTTP enrich`, otx being no raising body
OtxApply(enr, otx) ==
    LET pi == MGet(otx, "pulse_info", EmptyMap)
        pulse_count == OrElse(MGet(pi, "count", Null),
                              OrElse(MGet(pi, "indicator_count", Null), IntV(0)))
        e1 == IF Truthy(otx)
              THEN [otx |-> MapV([raw |-> otx, count |-> pulse_count]),
                    otx_count |-> pulse_count] @@ enr
              ELSE enr
    IN  IF otx.k = "map" /\ Truthy(MGet(otx, "passive_dns", Null))
        THEN [passive_dns |-> otx.m["passive_dns"]] @@ e1
        ELSE e1

\* enrich_worker once http_otx_lookup has returned otx
AfterOtx(ioc, idx, enr, ev, otx) ==
    IF OtxRaises(otx) THEN Frame("raised", enr, ev)
    ELSE Finish(ioc, idx, OtxApply(enr, otx), Append(ev, WorkerMsg(ioc, idx, "OTX")))

AbuseData(abuse) == OrElse(MGet(abuse, "data", Null), EmptyMap)

AbuseSev(data) ==
    OrElse(MGet(data, "abuseConfidenceScore", Null), MGet(data, "abuseConfidence", Null))

\* data.get on a data that is no dict: AttributeError; int(sev) on a text
\* that is no numeral (none of the bodies drawn holds a numeral as text) or
\* on a list or dict: ValueError, TypeError
AbuseRaises(abuse) ==
    /\ Truthy(abuse)
    /\ abuse.k = "map"
    /\ \/ AbuseData(abuse).k # "map"
       \/ /\ AbuseSev(AbuseData(abuse)) # Null
          /\ AbuseSev(AbuseData(abuse)).k # "int"

\* the ip branch of `optional HTTP enrich`, abuse being no raising body
AbuseApply(enr, abuse) ==
    IF Truthy(abuse) /\ abuse.k = "map"
    THEN LET data == AbuseData(abuse)
             sev == AbuseSev(data)
         IN  IF sev # Null
             THEN [abuseipdb |-> data, abuseipdb_score |-> sev] @@ enr
             ELSE [abuseipdb |-> data] @@ enr
    ELSE enr

\* enrich_worker once http_abuseipdb_lookup has returned abuse
AfterAbuse(ioc, idx, enr, ev, abuse) ==
    IF AbuseRaises(abuse) THEN Frame("raised", enr, ev)
    ELSE Finish(ioc, idx, AbuseApply(enr, abuse),
                Append(ev, WorkerMsg(ioc, idx, "ABUSEIPDB")))

\* enrich_worker from the return of enrich_local to the HTTP lookup; a
\* lookup without API key returns {} at once
HttpStage(ioc, idx, enr, ev) ==
    IF ~env.skip_http /\ ioc.type = "domain"
    THEN IF env.OTX_API_KEY = "" THEN AfterOtx(ioc, idx, enr, ev, EmptyMap)
         ELSE Frame("http", enr, ev)
    ELSE IF ~env.skip_http /\ ioc.type = "ip"
    THEN IF env.ABUSEIPDB_API_KEY = "" THEN AfterAbuse(ioc, idx, enr, ev, EmptyMap)
         ELSE Frame("http", enr, ev)
    ELSE Finish(ioc, idx, enr, ev)

\* enrich_local from `Make sure fields exist` to its return
LocalTail(ioc, idx, enr, ev) ==
    HttpStage(ioc, idx,
              enr @@ [passive_dns |-> EmptyList, reverse |-> EmptyMap,
                      geoip |-> EmptyMap, whois |-> EmptyMap],
              Append(ev, LocalMsg(ioc, "COMPLETE")))

\* enrich_worker from the entry into `async with sem` to the first suspension
EnterLocal(ioc, idx) ==
    IF ioc.type = "domain" THEN Frame("dns", <<>>, <<>>)
    ELSE IF ioc.type = "ip" THEN Frame("rdns", [dns |-> DnsEmpty], <<>>)
    ELSE LocalTail(ioc, idx, [dns |-> DnsEmpty], <<>>)

\* enrich_local once _run_dns has returned
AfterDns(ioc, idx, enr, dns_res) ==
    LET e == [dns |-> OrElse(dns_res, EmptyMap)] @@ enr
        ev == <<LocalMsg(ioc, "DNS")>>
    IN  IF ~env.skip_whois THEN Frame("whois", e, ev) ELSE LocalTail(ioc, idx, e, ev)

\* enrich_local once _run_whois has returned
AfterWhois(ioc, idx, enr, whois_res) ==
    LocalTail(ioc, idx, [whois |-> OrElse(whois_res, EmptyMap)] @@ enr,
              <<LocalMsg(ioc, "WHOIS")>>)

\* enrich_local once _run_rdns has returned
AfterRdns(ioc, idx, enr, rdns_res) ==
    Frame("geoip",
          IF Truthy(rdns_res) THEN [reverse |-> MapV([ptr |-> rdns_res])] @@ enr ELSE enr,
          <<LocalMsg(ioc, "REVERSE_DNS")>>)

\* enrich_local once _run_geoip has returned
AfterGeoip(ioc, idx, enr, geo_res) ==
    LocalTail(ioc, idx, [geoip |-> OrElse(geo_res, EmptyMap)] @@ enr,
              <<LocalMsg(ioc, "GEOIP")>>)

----------------------------------------------------------------------------
(* asyncio.Semaphore: acquire, release and the first-come queue of waiters *)

\* a semaphore that never counts its slots
locked_NeverFull(s) == s.waiters # <<>>

\* Semaphore.locked
locked(s) == s.value = 0 \/ s.waiters # <<>>

\* Semaphore.release: the slot goes to the first waiter, if there is one
release(s) ==
    IF s.waiters # <<>>
    THEN [sem |-> [value |-> s.value, waiters |-> Tail(s.waiters)], woken |-> {Head(s.waiters)}]
    ELSE [sem |-> [value |-> s.value + 1, waiters |-> <<>>], woken |-> {}]

----------------------------------------------------------------------------
(* main_async: priorities, cache file *)

\* int(sc) of a sources_count that is an integer
IntOf(v) == v.n

\* a key that sorts the least reported indicators first
keyfn_Ascending(i) ==
    IntOf(OrElse(EGet(i, "sources_count"), OrElse(EGet(i, "sources"), IntV(0))))

keyfn(i) ==
    -IntOf(OrElse(EGet(i, "sources_count"), OrElse(EGet(i, "sources"), IntV(0))))

\* sorted(.., key=keyfn) is stable: an element goes behind every element
\* whose key is not larger
RECURSIVE InsertByKey(_, _)
InsertByKey(s, x) ==
    IF s = <<>> THEN <<x>>
    ELSE IF keyfn(Head(s)) <= keyfn(x) THEN <<Head(s)>> \o InsertByKey(Tail(s), x)
    ELSE <<x>> \o s

RECURSIVE sorted(_)
sorted(s) ==
    IF s = <<>> THEN <<>>
    ELSE InsertByKey(sorted(SubSeq(s, 1, Len(s) - 1)), s[Len(s)])

\* all_iocs_sorted[:limit]
Truncate(s, limit) == SubSeq(s, 1, Min(limit, Len(s)))

\* load_cache: {} when the file is missing
load_cache(d) == IF "cache" \in d.exists THEN d.cache ELSE <<>>

\* a flush that leaves the cache file as it was
save_cache_Skipped(d, c) == d

\* save_cache: the snapshot replaces the file in one os.replace
save_cache(d, c) == [d EXCEPT !.cache = c, !.exists = @ \cup {"cache"}]


----------------------------------------------------------------------------
(* The run: main, main_async and the worker tasks *)

NewTask == [pc |-> "created", enrichment |-> <<>>, result |-> NoResult]

\* the provider a task calls when it suspends at pc
ProviderPcs == {"dns", "whois", "rdns", "geoip", "http"}

Provider(ioc, p) ==
    IF p = "http" THEN (IF ioc.type = "domain" THEN "otx" ELSE "abuseipdb") ELSE p

\* the tasks that hold a slot of the semaphore
Holding == {i \in DOMAIN tasks : tasks[i].pc \in ProviderPcs \cup {"granted", "cancelling"}}

AllStarted == \A j \in DOMAIN tasks : tasks[j].pc # "created"

\* a cache hit that reports COMPLETE only
CacheHitEvents_CompleteOnly(ioc, idx) == <<WorkerMsg(ioc, idx, "COMPLETE")>>

\* the two messages of a cache hit
CacheHitEvents(ioc, idx) ==
    <<WorkerMsg(ioc, idx, "CACHED"), WorkerMsg(ioc, idx, "COMPLETE")>>

\* the message that stops progress_printer
Sentinel == [stop |-> TRUE]

\* main up to the first await of main_async: remove OUT_JSONL, load and sort
\* the input, load the cache, create the tasks and the semaphore
MainStart ==
    /\ mpc = "main"
    /\ disk' = [disk EXCEPT !.exists = @ \ {"jsonl"}, !.jsonl = <<>>]
    /\ LET tp == IF "iocs" \in disk.exists
                 THEN Truncate(sorted(disk.iocs), env.limit) ELSE <<>>
       IN  IF tp = <<>>
           THEN /\ mpc' = "done"
                /\ UNCHANGED <<to_process, cache, tasks, sem>>
           ELSE /\ mpc' = "gather"
                /\ to_process' = tp
                /\ cache' = load_cache(disk)
                /\ tasks' = [i \in 1..Len(tp) |-> NewTask]
                /\ sem' = [value |-> env.concurrency, waiters |-> <<>>]
    /\ UNCHANGED <<env, progress_queue, invoked, run, prior, indexVars, printed, utilVars>>

\* task i runs to its next suspension or to its end, reaching frame f; s is
\* the semaphore before a slot the task holds is given back
Step(i, f, s) ==
    LET ioc == to_process[i]
        leaves == f.pc \in {"done", "raised"}
        rel == release(s)
    IN  /\ tasks' = [j \in DOMAIN tasks |->
                       IF j = i
                       THEN [pc |-> f.pc, enrichment |-> f.enrichment,
                             result |-> IF f.pc = "done" THEN Result(ioc, f.enrichment)
                                        ELSE NoResult]
                       ELSE IF leaves /\ j \in rel.woken
                            THEN [tasks[j] EXCEPT !.pc = "granted"]
                            ELSE tasks[j]]
        /\ sem' = IF leaves THEN rel.sem ELSE s
        /\ cache' = IF f.pc = "done"
                    THEN (KeyOf(ioc) :> Result(ioc, f.enrichment)) @@ cache
                    ELSE cache
        /\ progress_queue' = progress_queue \o f.ev
        /\ invoked' = IF f.pc \in ProviderPcs
                      THEN invoked \cup {<<i, Provider(ioc, f.pc)>>} ELSE invoked

\* the first step of task i: the tasks start in the order of their creation,
\* each running until it suspends, before any provider call returns
Start(i) ==
    /\ mpc = "gather"
    /\ i \in DOMAIN tasks
    /\ tasks[i].pc = "created"
    /\ \A j \in 1..(i - 1) : tasks[j].pc # "created"
    /\ LET ioc == to_process[i]
       IN  IF KeyOf(ioc) \in DOMAIN cache
           THEN /\ tasks' = [tasks EXCEPT ![i] = [pc |-> "done", enrichment |-> <<>>,
                                                   result |-> cache[KeyOf(ioc)]]]
                /\ progress_queue' = progress_queue \o CacheHitEvents(ioc, i)
                /\ UNCHANGED <<cache, sem, invoked>>
           ELSE IF ~locked(sem)
           THEN Step(i, EnterLocal(ioc, i), [sem EXCEPT !.value = @ - 1])
           ELSE /\ tasks' = [tasks EXCEPT ![i].pc = "waiting"]
                /\ sem' = [sem EXCEPT !.waiters = Append(@, i)]
                /\ UNCHANGED <<cache, progress_queue, invoked>>
    /\ UNCHANGED <<env, disk, mpc, to_process, run, prior, indexVars, printed, utilVars>>

\* task i resumes at pc p
Resumes(i, p) ==
    /\ mpc \in {"gather", "cancelreq"}
    /\ AllStarted
    /\ i \in DOMAIN tasks
    /\ tasks[i].pc = p

\* a waiter that was given a slot enters `async with sem`
Granted(i) ==
    /\ Resumes(i, "granted")
    /\ Step(i, EnterLocal(to_process[i], i), sem)
    /\ UNCHANGED <<env, disk, mpc, to_process, run, prior, indexVars, printed, utilVars>>

DnsDone(i) ==
    /\ Resumes(i, "dns")
    /\ \E res \in env.world["dns"] :
           Step(i, AfterDns(to_process[i], i, tasks[i].enrichment, res), sem)
    /\ UNCHANGED <<env, disk, mpc, to_process, run, prior, indexVars, printed, utilVars>>

WhoisDone(i) ==
    /\ Resumes(i, "whois")
    /\ \E res \in env.world["whois"] :
           Step(i, AfterWhois(to_process[i], i, tasks[i].enrichment, res), sem)
    /\ UNCHANGED <<env, disk, mpc, to_process, run, prior, indexVars, printed, utilVars>>

RdnsDone(i) ==
    /\ Resumes(i, "rdns")
    /\ \E res \in env.world["rdns"] :
           Step(i, AfterRdns(to_process[i], i, tasks[i].enrichment, res), sem)
    /\ UNCHANGED <<env, disk, mpc, to_process, run, prior, indexVars, printed, utilVars>>

GeoipDone(i) ==
    /\ Resumes(i, "geoip")
    /\ \E res \in env.world["geoip"] :
           Step(i, AfterGeoip(to_process[i], i, tasks[i].enrichment, res), sem)
    /\ UNCHANGED <<env, disk, mpc, to_process, run, prior, indexVars, printed, utilVars>>

\* session.get of the HTTP lookup returns or raises
HttpDone(i) ==
    /\ Resumes(i, "http")
    /\ LET ioc == to_process[i]
       IN  IF ioc.type = "domain"
           THEN \E resp \in env.world["otx"] :
                    Step(i, AfterOtx(ioc, i, tasks[i].enrichment, <<>>,
                                     http_otx_lookup(resp)), sem)
           ELSE \E resp \in env.world["abuseipdb"] :
                    Step(i, AfterAbuse(ioc, i, tasks[i].enrichment, <<>>,
                                       http_abuseipdb_lookup(resp)), sem)
    /\ UNCHANGED <<env, disk, mpc, to_process, run, prior, indexVars, printed, utilVars>>

\* the tasks[i:i+BATCH] main_async gathers next
Chunk == (Len(disk.jsonl) + 1) .. Min(Len(disk.jsonl) + BATCH, Len(to_process))

\* chunk_res, in the order of the tasks
ChunkResults == [k \in 1..Cardinality(Chunk) |-> tasks[Len(disk.jsonl) + k].result]

\* asyncio.gather of the chunk returned: append the chunk to OUT_JSONL and
\* rewrite the cache file
Flush ==
    /\ mpc = "gather"
    /\ AllStarted
    /\ \A j \in Chunk : tasks[j].pc = "done"
    /\ disk' = save_cache([disk EXCEPT !.jsonl = @ \o ChunkResults,
                                       !.exists = @ \cup {"jsonl"}], cache)
    /\ mpc' = IF Len(disk.jsonl) + BATCH >= Len(to_process) THEN "final" ELSE "gather"
    /\ UNCHANGED <<env, to_process, cache, tasks, sem, progress_queue, invoked,
                   run, prior, indexVars, printed, utilVars>>

\* asyncio.gather raises what a task of the chunk raised: main_async ends
\* with it, and asyncio.run cancels the tasks that still run
GatherFail ==
    /\ mpc = "gather"
    /\ AllStarted
    /\ \E j \in Chunk : tasks[j].pc = "raised"
    /\ mpc' = "failed"
    /\ tasks' = [j \in DOMAIN tasks |->
                   IF tasks[j].pc \in {"done", "raised"} THEN tasks[j]
                   ELSE [tasks[j] EXCEPT !.pc = "cancelled"]]
    /\ sem' = [value |-> env.concurrency, waiters |-> <<>>]
    /\ UNCHANGED <<env, disk, to_process, cache, progress_queue, invoked,
                   run, prior, indexVars, printed, utilVars>>

\* after the last chunk: write OUT_JSON from the cache and stop the printer
Finalize ==
    /\ mpc = "final"
    /\ disk' = [disk EXCEPT !.out = {cache[k] : k \in DOMAIN cache},
                            !.exists = @ \cup {"out"}]
    /\ progress_queue' = Append(progress_queue, Sentinel)
    /\ mpc' = "done"
    /\ UNCHANGED <<env, to_process, cache, tasks, sem, invoked, run, prior, indexVars, printed, utilVars>>

NextEnrich ==
    \/ MainStart
    \/ Flush
    \/ GatherFail
    \/ Finalize
    \/ \E i \in DOMAIN tasks : Start(i)
    \/ \E i \in DOMAIN tasks : Granted(i)
    \/ \E i \in DOMAIN tasks : DnsDone(i)
    \/ \E i \in DOMAIN tasks : WhoisDone(i)
    \/ \E i \in DOMAIN tasks : RdnsDone(i)
    \/ \E i \in DOMAIN tasks : GeoipDone(i)
    \/ \E i \in DOMAIN tasks : HttpDone(i)

----------------------------------------------------------------------------
(* SpecEnrich: one run over a few input files, with every provider answer *)

DomA == [type |-> "domain", value |-> "a.example", source |-> StrV("OTX"),
         sources_count |-> IntV(2)]

IpB == [type |-> "ip", value |-> "192.0.2.7", source |-> StrV("AbuseIPDB")]

HashC == [type |-> "hash", value |-> "ff", source |-> StrV("GitHub"),
          sources_count |-> IntV(2)]

\* what an earlier run left in the cache file for ioc
OldResult(ioc) == Result(ioc, [sources_count |-> IntV(1)])

InputLists == {<<IpB, DomA, HashC>>, <<HashC, IpB, DomA>>, <<DomA, IpB>>}

Limits == {2, 3}

CacheFiles == {<<>>, KeyOf(IpB) :> OldResult(IpB)}

Envs(worlds) ==
    [limit : Limits, concurrency : 1..MaxConcurrency, skip_whois : BOOLEAN,
     skip_http : BOOLEAN, OTX_API_KEY : {"", "key"}, ABUSEIPDB_API_KEY : {"", "key"},
     world : worlds]

Disks(lists, caches) ==
    {[exists |-> {"iocs"}, iocs |-> <<>>, jsonl |-> <<>>, cache |-> <<>>, out |-> {}]}
    \cup {[exists |-> IF c = <<>> THEN {"iocs"} ELSE {"iocs", "cache"},
           iocs |-> l, jsonl |-> <<>>, cache |-> c, out |-> {}] :
          l \in lists, c \in caches}

\* the memory of a process that is about to run main
FreshMemory ==
    /\ mpc = "main"
    /\ to_process = <<>>
    /\ cache = <<>>
    /\ tasks = <<>>
    /\ sem = [value |-> 0, waiters |-> <<>>]
    /\ progress_queue = <<>>
    /\ invoked = {}
    /\ printed = 0

\* the state main starts in
Fresh ==
    /\ FreshMemory
    /\ run = 1
    /\ prior = <<>>

IndexIdle ==
    /\ store = <<>>
    /\ now = 0
    /\ last = NoCall
    /\ canonIn = <<>>
    /\ canonOut = <<>>
    /\ storeBA = <<>>
    /\ obs = <<>>
    /\ pc = <<>>
    /\ args = <<>>
    /\ existing = <<>>

InitEnrich ==
    /\ env \in Envs({AnyWorld})
    /\ disk \in Disks(InputLists, CacheFiles)
    /\ Fresh
    /\ IndexIdle
    /\ UtilIdle

SpecEnrich == InitEnrich /\ [][NextEnrich]_vars


----------------------------------------------------------------------------
(* Claims about one enrichment run (SpecEnrich) *)

\* the messages of progress_queue about the indicator `key`, as their steps
RECURSIVE StepsIn(_, _)
StepsIn(q, key) ==
    IF q = <<>> THEN <<>>
    ELSE IF "id" \in DOMAIN Head(q) /\ Head(q).id = key
         THEN <<Head(q).step>> \o StepsIn(Tail(q), key)
         ELSE StepsIn(Tail(q), key)

StepsOf(i) == StepsIn(progress_queue, KeyOf(to_process[i]))

\* task i found its key in the cache: it put CACHED
Hit(i) ==
    \E k \in 1..Len(progress_queue) :
        /\ "id" \in DOMAIN progress_queue[k]
        /\ progress_queue[k].step = "CACHED"
        /\ MsgIdx(progress_queue[k]) = i

IsPrefix(s, t) == Len(s) <= Len(t) /\ s = SubSeq(t, 1, Len(s))

Count(s, x) == Cardinality({k \in 1..Len(s) : s[k] = x})

\* C11: at any time at most `concurrency` workers hold a slot of the
\* semaphore, a worker enters the guarded section at its start only while a
\* slot is free, and a waiting worker enters only in a step in which
\* another worker gives its slot back.
C11_AtMostCInSlot ==
    /\ [](Cardinality(Holding) <= env.concurrency)
    /\ [][\A i \in DOMAIN tasks :
            /\ (tasks[i].pc = "created" /\ tasks'[i].pc \in ProviderPcs)
                   => Cardinality(Holding) < env.concurrency
            /\ (tasks[i].pc = "waiting" /\ tasks'[i].pc \in ProviderPcs \cup {"granted"})
                   => \E j \in DOMAIN tasks :
                          /\ j # i
                          /\ tasks[j].pc \in ProviderPcs \cup {"granted"}
                          /\ tasks'[j].pc \notin ProviderPcs \cup {"granted"}]_vars

\* every slot is taken, and one of the holders had to wait for its slot
C11_Witness ==
    /\ Cardinality(Holding) = env.concurrency
    /\ \E i \in DOMAIN tasks : tasks[i].pc = "granted"
    /\ \E i \in DOMAIN tasks : tasks[i].pc = "waiting"

\* C12: a provider failure of any kind only empties that provider's
\* contribution: no worker raises, and asyncio.gather of the batch does not fail.
C12_ProviderFailureContained ==
    /\ mpc # "failed"
    /\ \A i \in DOMAIN tasks : tasks[i].pc # "raised"

\* the key of the bundle a provider writes
BundleKey(provider) == IF provider = "rdns" THEN "reverse" ELSE provider

\* C13: the bundle a worker returns has a key for every provider it called
\* for the indicator, also when the provider failed.
C13_AttemptedProvidersKeyed ==
    \A i \in DOMAIN tasks :
        tasks[i].pc = "done" /\ ~Hit(i) =>
            \A c \in invoked :
                c[1] = i => BundleKey(c[2]) \in DOMAIN tasks[i].result.enrichment

\* the sequence of steps the claim gives for an indicator
ExpectedSteps(ioc) ==
    IF ioc.type = "domain"
    THEN <<"DNS">> \o (IF env.skip_whois THEN <<>> ELSE <<"WHOIS">>)
                   \o (IF env.skip_http THEN <<>> ELSE <<"OTX">>) \o <<"COMPLETE">>
    ELSE <<"REVERSE_DNS", "GEOIP">>
                   \o (IF env.skip_http THEN <<>> ELSE <<"ABUSEIPDB">>) \o <<"COMPLETE">>

\* C14: the progress events of a domain or ip that is looked up, in queue
\* order, are at any time a prefix of the fixed sequence of its type and,
\* once the worker has returned, the whole of it.
C14_FixedStepSequence ==
    \A i \in DOMAIN tasks :
        to_process[i].type \in {"domain", "ip"} /\ ~Hit(i) =>
            /\ IsPrefix(StepsOf(i), ExpectedSteps(to_process[i]))
            /\ tasks[i].pc = "done" => StepsOf(i) = ExpectedSteps(to_process[i])

\* C15: COMPLETE is put exactly once for an indicator, after all its
\* providers have resolved (its worker has returned), and is its last event.
C15_CompleteOnceAndLast ==
    \A i \in DOMAIN tasks :
        LET s == StepsOf(i)
        IN  /\ Count(s, "COMPLETE") <= 1
            /\ Count(s, "COMPLETE") = 1 => s[Len(s)] = "COMPLETE" /\ tasks[i].pc = "done"
            /\ tasks[i].pc = "done" => Count(s, "COMPLETE") = 1

\* C16: a worker that starts with its key in the cache returns the cached
\* result in that step, leaves the cache, the semaphore and the providers
\* alone and puts CACHED then COMPLETE; these stay its only events.
C16_CacheHitShortCircuits ==
    /\ [][\A i \in DOMAIN tasks :
            (tasks[i].pc = "created" /\ tasks'[i].pc # "created"
             /\ KeyOf(to_process[i]) \in DOMAIN cache) =>
                /\ tasks'[i].pc = "done"
                /\ tasks'[i].result = cache[KeyOf(to_process[i])]
                /\ cache' = cache
                /\ sem' = sem
                /\ invoked' = invoked
                /\ Len(progress_queue') = Len(progress_queue) + 2
                /\ SubSeq(progress_queue', 1, Len(progress_queue)) = progress_queue
                /\ progress_queue'[Len(progress_queue) + 1].step = "CACHED"
                /\ progress_queue'[Len(progress_queue) + 2].step = "COMPLETE"
                /\ \A k \in 1..2 :
                       /\ progress_queue'[Len(progress_queue) + k].idx = i
                       /\ progress_queue'[Len(progress_queue) + k].id = KeyOf(to_process[i])]_vars
    /\ [](\A i \in DOMAIN tasks :
            Hit(i) => /\ StepsOf(i) = <<"CACHED", "COMPLETE">>
                      /\ \A c \in invoked : c[1] # i)

\* a cache hit next to a worker that holds a slot
C16_Witness ==
    \E i, j \in DOMAIN tasks :
        /\ Hit(i)
        /\ tasks[i].pc = "done"
        /\ tasks[i].result = disk.cache[KeyOf(to_process[i])]
        /\ tasks[j].pc \in ProviderPcs

\* the priority the claim sorts by
SourcesCount(ioc) == IF "sources_count" \in DOMAIN ioc THEN ioc["sources_count"].n ELSE 0

IndexIn(s, x) == CHOOSE k \in 1..Len(s) : s[k] = x

\* a comes before b in the order of the claim
Before(a, b) ==
    \/ SourcesCount(a) > SourcesCount(b)
    \/ /\ SourcesCount(a) = SourcesCount(b)
       /\ IndexIn(disk.iocs, a) < IndexIn(disk.iocs, b)

\* C17: the log is at any time the results of the first batches, whole, in
\* the order of the tasks, every logged task has completed, and the
\* tasks are the first `limit` indicators of the input by sources_count
\* descending, ties in input order.
C17_FlushInPriorityOrder ==
    to_process # <<>> =>
        /\ Len(to_process) = Min(env.limit, Len(disk.iocs))
        /\ \A a, b \in 1..Len(to_process) :
               a < b => Before(to_process[a], to_process[b])
        /\ \A k \in 1..Len(disk.iocs) :
               (\A a \in 1..Len(to_process) : to_process[a] # disk.iocs[k]) =>
                   \A a \in 1..Len(to_process) : Before(to_process[a], disk.iocs[k])
        /\ Len(disk.jsonl) <= Len(to_process)
        /\ Len(disk.jsonl) % BATCH = 0 \/ Len(disk.jsonl) = Len(to_process)
        /\ \A j \in 1..Len(disk.jsonl) :
               /\ tasks[j].pc = "done"
               /\ disk.jsonl[j] = tasks[j].result
               /\ disk.jsonl[j].type = to_process[j].type
               /\ disk.jsonl[j].value = to_process[j].value

\* position of the COMPLETE that worker i put itself
CompletedAt(i) ==
    CHOOSE k \in 0..Len(progress_queue) :
        \/ /\ k > 0
           /\ "id" \in DOMAIN progress_queue[k]
           /\ progress_queue[k].step = "COMPLETE"
           /\ MsgIdx(progress_queue[k]) = i
        \/ /\ k = 0
           /\ \A n \in 1..Len(progress_queue) :
                  ~("id" \in DOMAIN progress_queue[n]
                    /\ progress_queue[n].step = "COMPLETE"
                    /\ MsgIdx(progress_queue[n]) = i)

\* a second batch was flushed, the first batch completed in another order
\* than it was logged in, and the sort moved the head of the input
C17_Witness ==
    /\ Len(disk.jsonl) > BATCH
    /\ CompletedAt(1) > CompletedAt(2)
    /\ CompletedAt(2) > 0
    /\ to_process[1] # disk.iocs[1]


----------------------------------------------------------------------------
(* SpecCrash: the process is stopped at any point and main is run again     *)
(* over the same files                                                      *)

\* what the stopped run had logged by the end of its last finished flush:
\* the keys and results of the first `flushed` tasks
Left(n) ==
    [flushed |-> n,
     keys |-> [j \in 1..n |-> KeyOf(to_process[j])],
     results |-> [j \in 1..n |-> tasks[j].result]]

\* the memory of the process is gone, the files stay
Stopped ==
    /\ mpc' = "stopped"
    /\ to_process' = <<>>
    /\ cache' = <<>>
    /\ tasks' = <<>>
    /\ sem' = [value |-> 0, waiters |-> <<>>]
    /\ progress_queue' = <<>>
    /\ invoked' = {}
    /\ UNCHANGED <<env, run, indexVars, printed, utilVars>>

\* the process stops between two steps of the event loop
Stop ==
    /\ run = 1
    /\ mpc \in {"gather", "final", "done", "failed"}
    /\ prior' = Left(Len(disk.jsonl))
    /\ UNCHANGED disk
    /\ Stopped

\* the process stops inside a flush, between the write of OUT_JSONL and
\* save_cache
StopInFlush ==
    /\ run = 1
    /\ mpc = "gather"
    /\ AllStarted
    /\ \A j \in Chunk : tasks[j].pc = "done"
    /\ prior' = Left(Len(disk.jsonl))
    /\ disk' = [disk EXCEPT !.jsonl = @ \o ChunkResults, !.exists = @ \cup {"jsonl"}]
    /\ Stopped

\* python run_enrich.py once more, with the same arguments
Restart ==
    /\ mpc = "stopped"
    /\ mpc' = "main"
    /\ run' = 2
    /\ UNCHANGED <<env, disk, to_process, cache, tasks, sem, progress_queue,
                   invoked, prior, indexVars, printed, utilVars>>

NextCrash ==
    \/ NextEnrich
    \/ Stop
    \/ StopInFlush
    \/ Restart

\* every kind of answer, one of each
CrashWorld ==
    [dns |-> {DnsFound},
     whois |-> {EmptyMap},
     rdns |-> {Null},
     geoip |-> {GeoFound},
     otx |-> {Answered(200, OtxFound), Answered(200, OtxNullPulse)},
     abuseipdb |-> {Raised("timeout")}]

CrashEnvs ==
    [limit : {3}, concurrency : 1..MaxConcurrency, skip_whois : BOOLEAN,
     skip_http : {FALSE}, OTX_API_KEY : {"key"}, ABUSEIPDB_API_KEY : {"", "key"},
     world : {CrashWorld}]

InitCrash ==
    /\ env \in CrashEnvs
    /\ disk \in Disks(InputLists, CacheFiles)
    /\ Fresh
    /\ IndexIdle
    /\ UtilIdle

SpecCrash == InitCrash /\ [][NextCrash]_vars

\* C18: when the run has stopped, OUT_JSONL holds the results of every
\* indicator of the batches whose flush had finished and the cache file has an
\* entry for each of them; in the run started afterwards over the same input
\* each of them is a task that calls no provider and ends as a cache hit.
C18_FlushedSurviveRestart ==
    /\ mpc = "stopped" =>
           /\ prior.flushed > 0 => {"jsonl", "cache"} \subseteq disk.exists
           /\ \A j \in 1..prior.flushed :
                  /\ disk.jsonl[j] = prior.results[j]
                  /\ prior.keys[j] \in DOMAIN disk.cache
    /\ run = 2 /\ mpc \notin {"stopped", "main"} =>
           \A j \in 1..prior.flushed :
               \E i \in DOMAIN tasks :
                   /\ KeyOf(to_process[i]) = prior.keys[j]
                   /\ tasks[i].pc \in {"created", "done"}
                   /\ tasks[i].pc = "done" => Hit(i)
                   /\ \A c \in invoked : c[1] # i

\* after the restart a domain flushed by the stopped run is a cache hit (no
\* cache file drawn holds a domain), while a task it had not flushed is
\* looked up
C18_Witness ==
    /\ run = 2
    /\ prior.flushed = BATCH
    /\ \E i, j \in DOMAIN tasks :
           /\ to_process[i].type = "domain"
           /\ Hit(i)
           /\ i <= prior.flushed
           /\ j > prior.flushed
           /\ tasks[j].pc \in ProviderPcs


----------------------------------------------------------------------------
(* SpecDet: providers that always give the same answer; the run is made     *)
(* with --concurrency 1, then once more from the same files with a higher   *)
(* concurrency                                                              *)

\* the indicator of DomA as another feed reported it
DomA1 == [type |-> "domain", value |-> "a.example", source |-> StrV("RSS"),
          sources_count |-> IntV(1)]

DetLists == {<<IpB, DomA, HashC>>, <<DomA, DomA1>>, <<DomA1, HashC, DomA>>}

WorldFound ==
    [dns |-> {DnsFound}, whois |-> {WhoisFound}, rdns |-> {StrV("host.example")},
     geoip |-> {GeoFound}, otx |-> {Answered(200, OtxPassive)},
     abuseipdb |-> {Answered(200, AbuseFound)}]

WorldFailing ==
    [dns |-> {DnsEmpty}, whois |-> {EmptyMap}, rdns |-> {Null}, geoip |-> {EmptyMap},
     otx |-> {Answered(500, EmptyMap)}, abuseipdb |-> {Raised("timeout")}]

WorldBadBody ==
    [dns |-> {DnsFound}, whois |-> {EmptyMap}, rdns |-> {Null}, geoip |-> {GeoFound},
     otx |-> {Answered(200, OtxFound)}, abuseipdb |-> {Answered(200, AbuseTextScore)}]

DetEnvs ==
    [limit : Limits, concurrency : {1}, skip_whois : BOOLEAN, skip_http : BOOLEAN,
     OTX_API_KEY : {"key"}, ABUSEIPDB_API_KEY : {"key"},
     world : {WorldFound, WorldFailing, WorldBadBody}]

InitDet ==
    /\ env \in DetEnvs
    /\ disk \in Disks(DetLists, CacheFiles)
    /\ FreshMemory
    /\ run = 1
    /\ prior = [disk0 |-> disk]
    /\ IndexIdle
    /\ UtilIdle

\* the first run has ended: put the files back as they were and run main
\* again with a higher --concurrency
Rerun ==
    /\ run = 1
    /\ mpc \in {"done", "failed"}
    /\ \E c \in 2..MaxConcurrency : env' = [env EXCEPT !.concurrency = c]
    /\ prior' = [disk0 |-> prior.disk0, first |-> disk, ended |-> mpc]
    /\ disk' = prior.disk0
    /\ run' = 2
    /\ mpc' = "main"
    /\ to_process' = <<>>
    /\ cache' = <<>>
    /\ tasks' = <<>>
    /\ sem' = [value |-> 0, waiters |-> <<>>]
    /\ progress_queue' = <<>>
    /\ invoked' = {}
    /\ UNCHANGED <<indexVars, printed, utilVars>>

NextDet ==
    \/ NextEnrich
    \/ Rerun

SpecDet == InitDet /\ [][NextDet]_vars

Range(s) == {s[k] : k \in DOMAIN s}

\* C19: the run with the higher concurrency ends as the run with
\* concurrency 1 did, with the same set of results in OUT_JSON (same keys,
\* same enrichment per key) and the same results in OUT_JSONL.
C19_SameResultsAtAnyConcurrency ==
    run = 2 /\ mpc \in {"done", "failed"} =>
        /\ mpc = prior.ended
        /\ disk.out = prior.first.out
        /\ Range(disk.jsonl) = Range(prior.first.jsonl)

----------------------------------------------------------------------------
(* SpecCancel: the run is interrupted (SIGINT): asyncio.run cancels the     *)
(* main task, whose gather cancels the tasks of the chunk it waits for;     *)
(* when main_async has ended, asyncio.run cancels the tasks that remain     *)

\* asyncio.run cancels main_async; asyncio.gather passes the cancellation on
\* to the tasks of its chunk: the future of a waiter is cancelled at once, a
\* task inside the semaphore is thrown CancelledError at its next step
Interrupt ==
    /\ mpc = "gather"
    /\ AllStarted
    /\ mpc' = "cancelreq"
    /\ tasks' = [j \in DOMAIN tasks |->
                   IF j \notin Chunk THEN tasks[j]
                   ELSE IF tasks[j].pc = "waiting"
                   THEN [tasks[j] EXCEPT !.pc = "cancelled"]
                   ELSE IF tasks[j].pc \in ProviderPcs \cup {"granted"}
                   THEN [tasks[j] EXCEPT !.pc = "cancelling"]
                   ELSE tasks[j]]
    /\ sem' = [sem EXCEPT !.waiters = SelectSeq(@, LAMBDA w : w \notin Chunk)]
    /\ prior' = [jsonl |-> disk.jsonl]
    /\ UNCHANGED <<env, disk, to_process, cache, progress_queue, invoked, run, indexVars, printed, utilVars>>

\* CancelledError leaves `async with sem`: the slot goes to the first
\* waiter whose future is not cancelled
Cancelled(i) ==
    /\ mpc = "cancelreq"
    /\ i \in DOMAIN tasks
    /\ tasks[i].pc = "cancelling"
    /\ tasks' = [j \in DOMAIN tasks |->
                   IF j = i THEN [tasks[j] EXCEPT !.pc = "cancelled"]
                   ELSE IF j \in release(sem).woken
                   THEN [tasks[j] EXCEPT !.pc = "granted"]
                   ELSE tasks[j]]
    /\ sem' = release(sem).sem
    /\ UNCHANGED <<env, disk, mpc, to_process, cache, progress_queue, invoked,
                   run, prior, indexVars, printed, utilVars>>

\* every task of the chunk has ended: main_async ends with CancelledError
\* and asyncio.run cancels all tasks that are left
MainCancelled ==
    /\ mpc = "cancelreq"
    /\ \A j \in Chunk : tasks[j].pc \in {"done", "raised", "cancelled"}
    /\ mpc' = "cancelled"
    /\ tasks' = [j \in DOMAIN tasks |->
                   IF tasks[j].pc \in {"done", "raised"} THEN tasks[j]
                   ELSE [tasks[j] EXCEPT !.pc = "cancelled"]]
    /\ sem' = [value |-> env.concurrency, waiters |-> <<>>]
    /\ UNCHANGED <<env, disk, to_process, cache, progress_queue, invoked,
                   run, prior, indexVars, printed, utilVars>>

NextCancel ==
    \/ NextEnrich
    \/ Interrupt
    \/ \E i \in DOMAIN tasks : Cancelled(i)
    \/ MainCancelled

InitCancel ==
    /\ env \in CrashEnvs
    /\ disk \in Disks(InputLists, CacheFiles)
    /\ Fresh
    /\ IndexIdle
    /\ UtilIdle

SpecCancel == InitCancel /\ [][NextCancel]_vars

\* C20: once cancellation is requested no task that had no slot gets one, a
\* provider call in flight at the request is not aborted, and what was
\* flushed before the request stays in the log.
C20_SoftCancellation ==
    [][/\ mpc \in {"cancelreq", "cancelled"} =>
              \A i \in DOMAIN tasks :
                  tasks[i].pc \in {"created", "waiting"} =>
                      tasks'[i].pc \notin ProviderPcs \cup {"granted"}
       /\ mpc' \in {"cancelreq", "cancelled"} =>
              /\ \A i \in DOMAIN tasks :
                     tasks[i].pc \in ProviderPcs =>
                         tasks'[i].pc \notin {"cancelling", "cancelled"}
              /\ IsPrefix(prior'.jsonl, disk'.jsonl)]_vars


----------------------------------------------------------------------------
(* utils/cache.py: the on-disk Cache (use_redis is False)                   *)

\* the last tick of the clock in one behaviour
MaxClock == 3
\* calls of Cache.get and Cache.set in one behaviour of SpecCache
MaxCalls == 4

\* str.replace(old, new) for one-character old and new
Replace(s, old, new) == [i \in DOMAIN s |-> IF s[i] = old THEN new ELSE s[i]]

\* Cache._path: the file of a key; the directory and the suffix ".json" are
\* the same for every key
Cache_path(key) == Replace(Replace(key, "/", "_"), ":", "_")

\* Cache.get returns None
Miss == Null

\* Cache.get (lines 43-58): what it returns and the files it leaves
Cache_get(dir, t, key) ==
    LET p == Cache_path(key) IN
    IF p \notin DOMAIN dir THEN [ret |-> Miss, dir |-> dir]
    ELSE IF dir[p].expiry # 0 /\ t > dir[p].expiry
         THEN [ret |-> Miss, dir |-> [q \in DOMAIN dir \ {p} |-> dir[q]]]
         ELSE [ret |-> dir[p].value, dir |-> dir]

\* Cache.set (lines 64-66): the file is written over
Cache_set(dir, t, key, value, ttl) ==
    (Cache_path(key) :> [expiry |-> t + ttl, value |-> value]) @@ dir

\* key strings: a:b, a_b and acb
CacheKeys == {<<"a", x, "b">> : x \in {":", "_", "c"}}

\* values the callers store: dicts of JSON values with string keys, which
\* json.dump and json.load give back unchanged
CacheValues == {EmptyMap, GeoFound}

Ttls == {0, 1}

Get(key) ==
    /\ call.n < MaxCalls
    /\ cache_dir' = Cache_get(cache_dir, clock, key).dir
    /\ call' = [op |-> "get", n |-> call.n + 1, key |-> key, at |-> clock,
                ret |-> Cache_get(cache_dir, clock, key).ret]
    /\ UNCHANGED <<config, clock, written, indexVars, enrichVars>>

Set(key, value, ttl) ==
    /\ call.n < MaxCalls
    /\ cache_dir' = Cache_set(cache_dir, clock, key, value, ttl)
    /\ written' = (key :> [expiry |-> clock + ttl, value |-> value]) @@ written
    /\ call' = [op |-> "set", n |-> call.n + 1, key |-> key, at |-> clock, ret |-> Null]
    /\ UNCHANGED <<config, clock, indexVars, enrichVars>>

\* time passes between two calls
Tick ==
    /\ clock < MaxClock
    /\ clock' = clock + 1
    /\ UNCHANGED <<config, cache_dir, call, written, indexVars, enrichVars>>

InitCache ==
    /\ config = <<>>
    /\ cache_dir = <<>>
    /\ clock = 1
    /\ call = [op |-> "none", n |-> 0]
    /\ written = <<>>
    /\ IndexIdle
    /\ EnrichIdle

NextCache ==
    \/ \E key \in CacheKeys : Get(key)
    \/ \E key \in CacheKeys, value \in CacheValues, ttl \in Ttls : Set(key, value, ttl)
    \/ Tick

SpecCache == InitCache /\ [][NextCache]_vars

\* C21: a get of a key that was set returns the value of its last set up to
\* the expiry time of that set; after the expiry time it returns a miss and
\* the entry is gone (so every later get misses until the key is set again).
C21_GetHonoursExpiry ==
    call.op = "get" /\ call.key \in DOMAIN written =>
        IF call.at <= written[call.key].expiry
        THEN call.ret = written[call.key].value
        ELSE call.ret = Miss /\ Cache_path(call.key) \notin DOMAIN cache_dir

\* C29: a set or a get (with its eviction) of one key leaves what a get of
\* every other key returns as it was.
C29_DistinctKeysIndependent ==
    [][clock' = clock /\ call'.op \in {"set", "get"} =>
           \A k2 \in CacheKeys \ {call'.key} :
               Cache_get(cache_dir', clock, k2).ret = Cache_get(cache_dir, clock, k2).ret]_vars


----------------------------------------------------------------------------
(* enricher/geoip_enricher.py, dns_enricher.py, whois_enricher.py: lookups  *)
(* through the on-disk Cache                                                *)

\* the lookup raised (no database, no sample file, network error, bad input)
LookupRaised == [k |-> "raised"]

\* f"geoip:{ip}", f"dns:{domain}", f"whois:{domain}"
CacheKey(prefix, value) == <<prefix, ":">> \o value

\* the outcome of one enricher call: what it returns, the files of the
\* cache it leaves, whether it consulted its provider and whether it called
\* cache.set with what it returns
Outcome(ret, dir, consulted, stored) ==
    [ret |-> ret, dir |-> dir, invoked |-> consulted, stored |-> stored]

\* the common shape of the three enrichers: `if cached: return cached`,
\* else the provider, whose answer is stored unless it raised
Lookup(dir, t, key, answer, ttl) ==
    LET got == Cache_get(dir, t, key) IN
    IF Truthy(got.ret) THEN Outcome(got.ret, got.dir, FALSE, FALSE)
    ELSE IF answer = LookupRaised THEN Outcome(EmptyMap, got.dir, TRUE, FALSE)
    ELSE Outcome(answer, Cache_set(got.dir, t, key, answer, ttl), TRUE, TRUE)

\* enrich_geoip: the sample file in DEMO_MODE, else the GeoLite2 database
enrich_geoip(dir, t, ip, answer, ttl) ==
    IF ip = <<>> THEN Outcome(EmptyMap, dir, FALSE, FALSE)
    ELSE Lookup(dir, t, CacheKey("geoip", ip), answer, ttl)

\* enrich_dns: no lookup and nothing stored in DEMO_MODE or without
\* ALLOW_PUBLIC_FETCH
enrich_dns(dir, t, cfg, domain, answer, ttl) ==
    IF domain = <<>> THEN Outcome(EmptyMap, dir, FALSE, FALSE)
    ELSE LET key == CacheKey("dns", domain)
             got == Cache_get(dir, t, key) IN
         IF Truthy(got.ret) THEN Outcome(got.ret, got.dir, FALSE, FALSE)
         ELSE IF cfg.DEMO_MODE \/ ~cfg.ALLOW_PUBLIC_FETCH
         THEN Outcome(DnsEmpty, got.dir, FALSE, FALSE)
         ELSE Outcome(answer, Cache_set(got.dir, t, key, answer, ttl), TRUE, TRUE)

\* enrich_whois: the domain is lowered and stripped; the sample file in
\* DEMO_MODE, else python-whois
enrich_whois(dir, t, domain, answer, ttl) ==
    LET d == Strip(Lower(domain), Whitespace) IN
    IF d = <<>> THEN Outcome(EmptyMap, dir, FALSE, FALSE)
    ELSE Lookup(dir, t, CacheKey("whois", d), answer, ttl)

\* the key an enricher call reads
KeyRead(op, value) ==
    CASE op = "enrich_geoip" -> CacheKey("geoip", value)
      [] op = "enrich_dns" -> CacheKey("dns", value)
      [] op = "enrich_whois" -> CacheKey("whois", Strip(Lower(value), Whitespace))

\* calls of the enrichers in one behaviour of SpecLookup
MaxLookups == 3

\* one call of an enricher with outcome o
Enrich(op, value, o, ttl) ==
    /\ call.n < MaxLookups
    /\ cache_dir' = o.dir
    /\ call' = [op |-> op, n |-> call.n + 1, key |-> KeyRead(op, value), value |-> value,
                at |-> clock, ret |-> o.ret, invoked |-> o.invoked]
    /\ written' = IF o.stored
                  THEN (KeyRead(op, value) :> [expiry |-> clock + ttl, value |-> o.ret]) @@ written
                  ELSE written
    /\ UNCHANGED <<config, clock, indexVars, enrichVars>>

LookupValues == {<<>>, <<"a">>, <<"A">>}

Geoip ==
    \E ip \in LookupValues, answer \in {LookupRaised, EmptyMap, GeoFound}, ttl \in Ttls \ {0} :
        Enrich("enrich_geoip", ip, enrich_geoip(cache_dir, clock, ip, answer, ttl), ttl)

Dns ==
    \E domain \in LookupValues, answer \in {DnsEmpty, DnsFound}, ttl \in Ttls \ {0} :
        Enrich("enrich_dns", domain,
               enrich_dns(cache_dir, clock, config, domain, answer, ttl), ttl)

Whois ==
    \E domain \in LookupValues, answer \in {LookupRaised, EmptyMap, WhoisFound}, ttl \in Ttls \ {0} :
        Enrich("enrich_whois", domain,
               enrich_whois(cache_dir, clock, domain, answer, ttl), ttl)

InitLookup ==
    /\ config \in [DEMO_MODE : BOOLEAN, ALLOW_PUBLIC_FETCH : BOOLEAN]
    /\ cache_dir = <<>>
    /\ clock = 1
    /\ call = [op |-> "none", n |-> 0]
    /\ written = <<>>
    /\ IndexIdle
    /\ EnrichIdle

NextLookup ==
    \/ Geoip
    \/ Dns
    \/ Whois
    \/ Tick

SpecLookup == InitLookup /\ [][NextLookup]_vars

\* an entry of the key is on disk and has not expired at time t
Unexpired(dir, t, key) ==
    /\ Cache_path(key) \in DOMAIN dir
    /\ ~(dir[Cache_path(key)].expiry # 0 /\ t > dir[Cache_path(key)].expiry)

\* C22: an enricher called while an unexpired entry of its key exists, an
\* empty result included, returns the stored value and does not consult its
\* provider.
C22_CacheHitBypassesProvider ==
    [][/\ call'.n # call.n
       /\ call'.value # <<>>
       /\ Unexpired(cache_dir, clock, call'.key)
       => /\ call'.ret = cache_dir[Cache_path(call'.key)].value
          /\ ~call'.invoked]_vars


----------------------------------------------------------------------------
(* utils/scoring.py: score_ioc; run_index.py: compute_score                 *)
(* Dates are day numbers on the scale of `clock`; an ISO date string is the  *)
(* value [k |-> "date", day |-> d].  Every other string of the model is no   *)
(* number and no date.                                                       *)

DateV(d) == [k |-> "date", day |-> d]

\* int(_num(v, 0)): float(v) of a string that is no number raises inside _num
Num(v) == IF v.k = "int" THEN v.n ELSE 0

\* _parse_dt: the day of an ISO date string, None for anything else
parse_dt(v) == IF v.k = "date" THEN v ELSE Null

\* the keywords of PTR_SUSPICIOUS_KEYWORDS, CLOUD_KEYWORDS, the source
\* names and the lists of run_index.py that occur in s.lower()
KeywordsIn(s) ==
    CASE s = StrV("AbuseIPDB") -> {"abuseipdb"}
      [] OTHER -> {}

\* (d.get(key) or {}) of a dict d whose value under key is a dict or absent
Sub(d, key) == IF key \in DOMAIN d /\ d[key].k = "map" THEN d[key].m ELSE <<>>

\* round(log10(x + 1) * m) for x = num / den > 0 is the number of k with
\* x >= 10 ^ ((k - 0.5) / m) - 1; the tables hold these bounds in
\* thousandths, up to the cap
CountAtLeast(num, den, table) ==
    Cardinality({k \in DOMAIN table : num * 1000 >= table[k] * den})

\* m = 4.0, cap 18 (line 102)
ReportBounds ==
    <<334, 1372, 3217, 6499, 12336, 22714, 41170, 73990, 132353, 236138, 420697,
      748895, 1332522, 2370374, 4215966, 7497943, 13334215, 23712738>>

\* m = 3.2, cap 12 (line 112)
UserBounds ==
    <<434, 1943, 5043, 11410, 24483, 51330, 106461, 219674, 452159, 929573,
      1909953, 3923190>>

\* m = 2.5, cap 8 (line 123); round(2.5) is 2, so level 3 starts above 9
DensityBounds == <<585, 2982, 9001, 24119, 62096, 157490, 397108, 999000>>

\* score_ioc at day `today`
score_ioc(ioc, today) ==
    LET ench == ioc.enrichment
        abuse == Sub(ench, "abuseipdb")
        src == KeywordsIn(ioc.source)
        src_weight == IF "abuseipdb" \in src THEN 4
                      ELSE IF "otx" \in src \/ "alienvault" \in src THEN 3
                      ELSE IF "github" \in src \/ "rss" \in src THEN 1 ELSE 0
        conf0 == EGet(abuse, "abuseConfidenceScore")
        abuse_conf == Num(IF conf0 = Null THEN EGet(ench, "abuseipdb_score") ELSE conf0)
        abuse_contrib == Min(24, (2 * abuse_conf + 5) \div 10)
        total_reports == Num(OrElse(EGet(abuse, "totalReports"),
                                    OrElse(EGet(ench, "abuse_totalReports"), IntV(0))))
        total_reports_contrib == IF total_reports > 0
                                 THEN CountAtLeast(total_reports, 1, ReportBounds) ELSE 0
        distinct == Num(OrElse(EGet(abuse, "numDistinctUsers"),
                               OrElse(EGet(ench, "abuse_numDistinctUsers"), IntV(0))))
        distinct_contrib == IF distinct > 0
                            THEN CountAtLeast(distinct, 1, UserBounds) ELSE 0
        rp_contrib == IF distinct > 0 /\ total_reports > 0
                      THEN CountAtLeast(total_reports, distinct, DensityBounds) ELSE 0
        pdns == EGet(ench, "passive_dns")
        pdns_count == IF pdns.k = "list" THEN Len(pdns.l) ELSE 0
        pdns_contrib == Min(8, pdns_count)
        otx_count == IF EGet(ench, "otx").k = "map"
                     THEN Num(OrElse(EGet(ench["otx"].m, "pulse_count"),
                                     OrElse(EGet(ench["otx"].m, "count"), IntV(0))))
                     ELSE Num(OrElse(EGet(ench, "otx_count"), IntV(0)))
        otx_contrib == Min(8, otx_count * 2)
        ptr0 == EGet(Sub(ench, "reverse"), "ptr")
        ptr == IF ~Truthy(ptr0) /\ EGet(ench, "reverse").k = "str" THEN ench["reverse"] ELSE ptr0
        ptr_contrib == IF Truthy(ptr) /\ KeywordsIn(ptr) \cap {"scan", "scanner", "bot", "tor"} # {}
                       THEN 10 ELSE 0
        isp == OrElse(EGet(abuse, "isp"), EGet(ench, "abuse_isp"))
        cloud_penalty == IF KeywordsIn(isp) \cap {"amazon", "aws", "google", "cloud"} # {}
                         THEN 8 ELSE 0
        whois_obj == Sub(ench, "whois")
        whois_present == IF ioc.type = "domain"
                            /\ \/ Truthy(EGet(whois_obj, "registrar"))
                               \/ Truthy(EGet(whois_obj, "creation_date"))
                               \/ Truthy(EGet(whois_obj, "raw"))
                         THEN 1 ELSE 0
        whois_contrib == IF whois_present = 1 THEN 6 ELSE 0
        creation == OrElse(EGet(whois_obj, "creation_date"), EGet(whois_obj, "created"))
        parsed == IF Truthy(creation) THEN parse_dt(creation) ELSE Null
        domain_age_contrib == IF whois_present = 1 /\ parsed # Null
                              THEN IF today - parsed.day <= 30 THEN 8
                                   ELSE IF today - parsed.day <= 365 THEN 4 ELSE 0
                              ELSE 0
        last_rep == OrElse(EGet(abuse, "lastReportedAt"), EGet(ench, "abuse_lastReportedAt"))
        parsed_last == IF Truthy(last_rep) THEN parse_dt(last_rep) ELSE Null
        recency_contrib == IF parsed_last = Null THEN 0
                           ELSE IF today - parsed_last.day <= 7 THEN 10
                           ELSE IF today - parsed_last.day <= 30 THEN 7
                           ELSE IF today - parsed_last.day <= 90 THEN 4
                           ELSE IF today - parsed_last.day <= 365 THEN 2 ELSE 0
        geoip == Sub(ench, "geoip")
        country == OrElse(EGet(geoip, "country_iso"), EGet(geoip, "country"))
        country_contrib == IF country \in {StrV("IR"), StrV("RU"), StrV("CN"), StrV("KP"),
                                           StrV("SY"), StrV("VN")} THEN 3 ELSE 0
        signals == {x \in {abuse_conf, total_reports, distinct, pdns_count, otx_count,
                           ptr_contrib, whois_present} : x # 0}
        penalty == IF signals = {} THEN 5 ELSE 0
        score == 10 + src_weight + abuse_contrib + total_reports_contrib + distinct_contrib
                 + rp_contrib + pdns_contrib + otx_contrib + ptr_contrib - cloud_penalty
                 + whois_contrib + domain_age_contrib + recency_contrib + country_contrib
                 - penalty
    IN [raised |-> FALSE,
        final_score |-> Max(0, Min(100, score)),
        breakdown |->
          [base |-> 10, source_weight |-> src_weight, abuse_confidence |-> abuse_conf,
           abuse_contrib |-> abuse_contrib, total_reports |-> total_reports,
           total_reports_contrib |-> total_reports_contrib, distinct_users |-> distinct,
           distinct_users_contrib |-> distinct_contrib,
           reports_per_user_contrib |-> rp_contrib, passive_dns_contrib |-> pdns_contrib,
           otx_contrib |-> otx_contrib, ptr_contrib |-> ptr_contrib,
           cloud_penalty |-> -cloud_penalty, whois_contrib |-> whois_contrib,
           domain_age_contrib |-> domain_age_contrib, recency_contrib |-> recency_contrib,
           country_contrib |-> country_contrib, no_signals_penalty |-> -penalty,
           final_score_raw |-> score]]

\* round(n * 0.25): a tie goes to the even neighbour
RoundQuarter(n) ==
    LET q == n \div 4
        r == n % 4
    IN IF r < 2 THEN q
       ELSE IF r > 2 THEN q + 1
       ELSE IF q % 2 = 0 THEN q ELSE q + 1

\* map_reports_to_contrib
map_reports_to_contrib(r) ==
    IF r >= 10000 THEN 18 ELSE IF r >= 5000 THEN 16 ELSE IF r >= 2000 THEN 14
    ELSE IF r >= 1000 THEN 12 ELSE IF r >= 500 THEN 10 ELSE IF r >= 200 THEN 8
    ELSE IF r >= 50 THEN 5 ELSE IF r >= 10 THEN 2 ELSE 0

\* map_users_to_contrib
map_users_to_contrib(u) ==
    IF u >= 1000 THEN 10 ELSE IF u >= 500 THEN 9 ELSE IF u >= 200 THEN 7
    ELSE IF u >= 100 THEN 5 ELSE IF u >= 25 THEN 3 ELSE 0

\* int(v) of line 135 and 136 raises ValueError for a string that is no number
IntRaises(v) == v.k \notin {"int", "null"}

\* compute_score of run_index.py
compute_score(item) ==
    LET enr == item.enrichment
        abuse == OrElse(EGet(enr, "abuseipdb"), EGet(enr, "abuse"))
        am == IF abuse.k = "map" THEN abuse.m ELSE <<>>
        data == Sub(am, "data")
        src == KeywordsIn(item.source)
        source_weight == IF ~Truthy(item.source) THEN 5
                         ELSE IF "abuseipdb" \in src THEN 20
                         ELSE IF "otx" \in src THEN 10
                         ELSE IF "urlhaus" \in src THEN 12 ELSE 5
        conf0 == IF abuse.k = "map"
                 THEN OrElse(EGet(am, "abuseConfidenceScore"),
                             OrElse(EGet(data, "abuseConfidenceScore"),
                                    EGet(enr, "abuseipdb_score")))
                 ELSE Null
        abuse_conf == Num(conf0)
        reports0 == OrElse(EGet(am, "totalReports"), OrElse(EGet(data, "totalReports"), IntV(0)))
        users0 == OrElse(EGet(am, "numDistinctUsers"),
                         OrElse(EGet(data, "numDistinctUsers"), IntV(0)))
        total_reports == Num(reports0)
        distinct_users == Num(users0)
        pdns == EGet(enr, "passive_dns")
        passive_dns_count == IF pdns.k = "list" THEN Len(pdns.l) ELSE 0
        otx0 == OrElse(EGet(enr, "otx_count"), IntV(0))
        otx_count == Num(otx0)
        ptr == EGet(Sub(enr, "reverse"), "ptr")
        ptr_contrib == IF Truthy(ptr) /\ KeywordsIn(ptr) \cap {"scan", "security", "bot"} # {}
                       THEN 12 ELSE 0
        country_iso == EGet(Sub(enr, "geoip"), "country_iso")
        country_contrib == IF country_iso \in {StrV("CN"), StrV("RU"), StrV("IR"), StrV("KP"),
                                               StrV("SY")} THEN 5 ELSE 0
        signals == abuse_conf # 0 \/ total_reports # 0 \/ otx_count # 0 \/ passive_dns_count # 0
        penalty == IF signals THEN 0 ELSE 5
        total_raw == 10 + source_weight + RoundQuarter(abuse_conf)
                     + map_reports_to_contrib(total_reports)
                     + map_users_to_contrib(distinct_users)
                     + Min(8, otx_count) + ptr_contrib + country_contrib - penalty
    IN IF IntRaises(reports0) \/ IntRaises(users0) \/ IntRaises(otx0)
       THEN [raised |-> TRUE]
       ELSE [raised |-> FALSE,
             final_score |-> Max(0, Min(100, total_raw)),
             breakdown |->
               [base |-> 10, source_weight |-> source_weight,
                abuse_confidence |-> abuse_conf,
                abuse_contrib |-> RoundQuarter(abuse_conf),
                total_reports |-> total_reports,
                total_reports_contrib |-> map_reports_to_contrib(total_reports),
                distinct_users |-> distinct_users,
                distinct_users_contrib |-> map_users_to_contrib(distinct_users),
                passive_dns_contrib |-> 0, otx_contrib |-> Min(8, otx_count),
                ptr_contrib |-> ptr_contrib, whois_contrib |-> 0,
                country_contrib |-> country_contrib, no_signals_penalty |-> -penalty,
                final_score_raw |-> total_raw]]

\* main of run_index.py, lines 203-208
risk_bucket(score) == IF score >= 70 THEN "high" ELSE IF score >= 40 THEN "medium" ELSE "low"

\* a dict without the keys whose value is None or an empty dict
Prune(f) == [key \in {x \in DOMAIN f : f[x] # Null /\ f[x] # EmptyMap} |-> f[key]]

\* the documents scored: every combination of the field values below; a
\* document with a report count has reporters, a domain has a WHOIS record
ScoreDoc(type, source, conf, reports, reported, country) ==
    [type |-> type, source |-> source,
     enrichment |->
       Prune([abuseipdb |->
                MapV(Prune([abuseConfidenceScore |-> conf, totalReports |-> reports,
                            numDistinctUsers |-> IF reports.k = "int" THEN IntV(3) ELSE Null,
                            lastReportedAt |-> reported])),
              whois |-> MapV(Prune([creation_date |->
                                      IF type = "domain" THEN DateV(-29) ELSE Null])),
              geoip |-> MapV(Prune([country_iso |-> country]))])]

ScoreDocs ==
    {ScoreDoc(type, source, conf, reports, reported, country) :
        type \in {"ip", "domain"},
        source \in {StrV("AbuseIPDB"), StrV("unknown")},
        conf \in {Null, IntV(-50), IntV(100), IntV(1000)},
        reports \in {Null, IntV(12000), StrV("many")},
        reported \in {Null, DateV(-6)},
        country \in {Null, StrV("RU")}}

ScoreIoc(doc) ==
    /\ call' = [op |-> "score_ioc", doc |-> doc, at |-> clock, ret |-> score_ioc(doc, clock)]
    /\ UNCHANGED <<config, cache_dir, clock, written, indexVars, enrichVars>>

ComputeScore(doc) ==
    /\ call' = [op |-> "compute_score", doc |-> doc, at |-> clock, ret |-> compute_score(doc)]
    /\ UNCHANGED <<config, cache_dir, clock, written, indexVars, enrichVars>>

InitScore ==
    /\ config = <<>>
    /\ cache_dir = <<>>
    /\ clock = 1
    /\ call = [op |-> "none"]
    /\ written = <<>>
    /\ IndexIdle
    /\ EnrichIdle

NextScore ==
    \/ \E doc \in ScoreDocs : ScoreIoc(doc)
    \/ \E doc \in ScoreDocs : ComputeScore(doc)
    \/ Tick

SpecScore == InitScore /\ [][NextScore]_vars

Scored == call.op \in {"score_ioc", "compute_score"}

\* C23: every call of a scoring function returns, with an integer final
\* score between 0 and 100.
C23_ScoreBounded ==
    Scored => ~call.ret.raised /\ call.ret.final_score \in 0..100

\* C24: two calls of score_ioc on the same document return the same score
\* and breakdown, whatever time passed between them.
C24_ScoreDeterministic ==
    [][call.op = "score_ioc" /\ call'.op = "score_ioc" /\ call'.doc = call.doc
         => call'.ret = call.ret]_vars

\* C25: in every breakdown the reputation-confidence contribution is in
\* 0..25, the report-volume contribution in 0..18, the distinct-reporter
\* contribution in 0..12 and the density contribution in 0..8.
C25_ContributionsCapped ==
    Scored /\ ~call.ret.raised =>
        LET b == call.ret.breakdown IN
        /\ b.abuse_contrib \in 0..25
        /\ b.total_reports_contrib \in 0..18
        /\ b.distinct_users_contrib \in 0..12
        /\ "reports_per_user_contrib" \in DOMAIN b => b.reports_per_user_contrib \in 0..8

\* the signal contributions of the scoring table that a breakdown reports
SignalContribs(b) ==
    {b[f] : f \in DOMAIN b \cap {"source_weight", "abuse_contrib", "total_reports_contrib",
                                 "distinct_users_contrib", "reports_per_user_contrib",
                                 "ptr_contrib", "cloud_penalty", "whois_contrib",
                                 "domain_age_contrib", "recency_contrib", "country_contrib"}}

\* C26: the no-signal penalty is applied exactly when every signal
\* contribution is zero; a document with empty enrichment and an unknown
\* source gets it and lands in the low bucket.
C26_PenaltyIffNoSignal ==
    Scored /\ ~call.ret.raised =>
        /\ call.ret.breakdown.no_signals_penalty # 0
               <=> SignalContribs(call.ret.breakdown) \subseteq {0}
        /\ call.doc.enrichment = <<>> /\ call.doc.source = StrV("unknown")
               => /\ call.ret.breakdown.no_signals_penalty # 0
                  /\ risk_bucket(call.ret.final_score) = "low"


----------------------------------------------------------------------------
(* SpecSkip: calls of Indexer.upsert with records that lack a type or a
   value: the key absent, None or the empty string *)

SkipIndicators ==
    {<<>>,
     [type |-> "domain"],
     [value |-> <<"a">>],
     [type |-> "domain", value |-> <<>>],
     [type |-> "domain", value |-> None],
     [type |-> NoType, value |-> <<"a">>],
     [type |-> "", value |-> <<"a">>],
     [type |-> "domain", value |-> <<"a">>]}

NextSkip == now < MaxUpserts /\ \E ioc \in SkipIndicators, enr \in Bundles : Upsert(ioc, enr)

SpecSkip == Init /\ [][NextSkip]_vars

\* type or value is missing: key absent, None or empty
Missing(ioc) == TypeOf(ioc) \in {NoType, ""} \/ ValueOf(ioc) \in {None, <<>>}

\* C27: a call of upsert with a record whose type or value is missing
\* returns no document and leaves the store as it was.
C27_MissingFieldSkipped ==
    [][now' # now /\ Missing(last'.ioc) => last'.doc = NoDoc /\ store' = store]_vars


----------------------------------------------------------------------------
(* the workers of one run and the keys they look up *)

\* C28: two workers whose indicators have the same key are never inside a
\* provider lookup at the same time, and the providers are called for a key
\* by at most one worker of the run.
C28_OneWorkerPerKey ==
    \A i, j \in DOMAIN tasks :
        i < j /\ KeyOf(to_process[i]) = KeyOf(to_process[j]) =>
            /\ ~(tasks[i].pc \in ProviderPcs /\ tasks[j].pc \in ProviderPcs)
            /\ ~(\E c, d \in invoked : c[1] = i /\ d[1] = j)


----------------------------------------------------------------------------
(* SpecLive: the run together with progress_printer, under the fairness of  *)
(* the event loop: a task that is ready to run is run                        *)

\* progress_printer takes the next message: it prints an event, or ends at
\* the sentinel.  The printer task exists from its creation in main_async
\* until asyncio.run ends; when main_async ends with an exception,
\* asyncio.run cancels it.
Take ==
    /\ mpc \in {"gather", "final", "done"}
    /\ printed < Len(progress_queue)
    /\ printed' = printed + 1
    /\ UNCHANGED <<env, disk, mpc, to_process, cache, tasks, sem, progress_queue,
                   invoked, run, prior, indexVars, utilVars>>

NextLive ==
    \/ NextEnrich
    \/ Take

InitLive ==
    /\ env \in CrashEnvs
    /\ disk \in Disks(InputLists, CacheFiles)
    /\ Fresh
    /\ IndexIdle
    /\ UtilIdle

SpecLive == InitLive /\ [][NextLive]_vars /\ WF_vars(NextLive)

\* the run has ended: every indicator has a result, every batch is in
\* OUT_JSONL and the printer has taken every message, the sentinel included
Terminated ==
    /\ mpc = "done"
    /\ \A i \in DOMAIN tasks : tasks[i].result # NoResult
    /\ Len(disk.jsonl) = Len(to_process)
    /\ printed = Len(progress_queue)

\* C30: the run terminates (every indicator has a result, every batch is
\* flushed, the printer has processed every event and stopped at the
\* sentinel), and the sentinel is on the queue only when every worker has
\* finished.
C30_RunTerminates ==
    /\ [](Sentinel \in Range(progress_queue) => \A i \in DOMAIN tasks : tasks[i].pc = "done")
    /\ <>Terminated

=============================================================================
